---- MODULE Spec2Model ----
(***************************************************************************)
(* pscan: the sorting engine (src/sorting.rs), the layout calculator and   *)
(* index lists (src/utils.rs), the window handles of the Windows and Unix  *)
(* backends (src/platform), window discovery, and the command handlers     *)
(* that dispatch a batch of handle operations (src/features, src/main.rs). *)
(*                                                                         *)
(* Strings are sequences of one-character strings, compared and parsed     *)
(* character by character as the Rust standard library does.  i32          *)
(* arithmetic wraps modulo 2^32 (the release profile of cargo, which       *)
(* builds without overflow checks).                                        *)
(***************************************************************************)
EXTENDS Integers, Sequences, FiniteSets, TLC

VARIABLES
    pc,            \* position of the run: "start", "sorted", "validated", "rejected",
                   \* "calculated", "parsed", "indexed", "dispatch", "done", "found", "returned",
                   \* "read"
    kind,          \* element type of the slice: "WindowInfo" or "WindowHandle"
    items,         \* the slice handed to apply_optimized_sorting
    sort_pid,      \* SortOrder of the pid key
    x_order,       \* PositionSort.x_order
    y_order,       \* PositionSort.y_order
    calls,         \* number of apply_optimized_sorting calls made on items
    sortRan,       \* TRUE iff the last call reached items.sort_by
    before,        \* the slice as it was before the last call
    window_count,  \* N, the number of target windows
    position,      \* Option<String> --position
    layout,        \* Option<String> --layout
    x_start,       \* Option<String> --x-start
    y_start,       \* Option<String> --y-start
    x_step,        \* Option<String> --x-step
    y_step,        \* Option<String> --y-step
    validation,    \* result of validate_position_parameters
    positions,     \* result of calculate_positions / parse_layout
    coords,        \* the integers the layout string was written from
    index,         \* the --index string
    max_index,     \* the max_index handed to parse_indices
    tokens,        \* the tokens the index string was written from
    indices,       \* result of parse_indices
    handler,       \* the command handler that runs
    operation,     \* WindowOperation of a minimize / maximize / restore command
    platform,      \* the backend that produces the handles: "Windows" or "Unix"
    windows,       \* the Vec<WindowHandle> of the command
    native,        \* the native window behind each handle, by handle id
    all,           \* --all
    args,          \* the other arguments of the command
    target,        \* (target_width, target_height) of a resize command
    cursor,        \* i, the number of loop iterations done
    count,         \* successes counted so far
    outcome,       \* what the handler returns
    issued,        \* native calls issued so far: handle id and call, in order
    received,      \* handle methods invoked so far: handle id, method and whether it
                   \* returned Ok, in order
    params,        \* the arguments of the handle method called directly
    flips,         \* how often another actor has changed the window's topmost flag
    prior,         \* the topmost flag as it was just before the last write of it
    desktop,       \* the top-level windows EnumWindows walks, in its order
    process_names, \* the process table: (pid, name) pairs
    pid_filter,    \* Option<String> --pid
    name_filter,   \* Option<String> --name
    title_filter   \* Option<String> --title

vars == <<pc, kind, items, sort_pid, x_order, y_order, calls, sortRan, before,
          window_count, position, layout, x_start, y_start, x_step, y_step,
          validation, positions, coords, index, max_index, tokens, indices,
          handler, operation, platform, windows, native, all, args, target,
          cursor, count, outcome, issued, received, params, flips, prior,
          desktop, process_names, pid_filter, name_filter, title_filter>>

sortVars == <<kind, items, sort_pid, x_order, y_order, calls, sortRan, before>>
layoutVars == <<window_count, position, layout, x_start, y_start, x_step, y_step,
                validation, positions, coords>>
indexVars == <<index, max_index, tokens, indices>>
\* the variables of the components added to the sorting engine and the layout calculator
batchVars == <<handler, operation, platform, windows, native, all, args, target,
               cursor, count, outcome, issued, received, params, flips, prior>>
discoveryVars == <<desktop, process_names, pid_filter, name_filter, title_filter>>
restVars == <<indexVars, batchVars, discoveryVars>>

-----------------------------------------------------------------------------
(* Bounds *)

MaxLen == 3        \* longest slice that is sorted
MaxCalls == 2      \* calls of the sort on one slice
MaxWindows == 3    \* largest target count N
MaxPairs == 2      \* most coordinate pairs in a written layout list
MaxTokens == 3     \* most tokens in a written index list
MaxBatch == 3      \* most windows a command discovers
MaxDesktop == 2    \* most top-level windows on the desktop

-----------------------------------------------------------------------------
(* Characters and strings *)

\* Option<T>: the empty tuple is Option::None, a one-element tuple is Some(v)
OptNone == <<>>
Some(v) == <<v>>
IsSome(o) == o # OptNone
Unwrap(o) == o[1]

\* byte value of a character (str::cmp compares bytes)
Code(c) ==
    CASE c = " " -> 32 [] c = "+" -> 43 [] c = "," -> 44 [] c = "-" -> 45
      [] c = "0" -> 48 [] c = "1" -> 49 [] c = "2" -> 50 [] c = "3" -> 51
      [] c = "4" -> 52 [] c = "5" -> 53 [] c = "6" -> 54 [] c = "7" -> 55
      [] c = "8" -> 56 [] c = "9" -> 57 [] c = "A" -> 65 [] c = "B" -> 66
      [] c = "a" -> 97 [] c = "x" -> 120

IsDigit(c) == c \in {"0", "1", "2", "3", "4", "5", "6", "7", "8", "9"}
DigitVal(c) == Code(c) - 48
DigitChar(d) == <<"0", "1", "2", "3", "4", "5", "6", "7", "8", "9">>[d + 1]

Less == "Less"
Equal == "Equal"
Greater == "Greater"

\* Ord::cmp on integers
IntCmp(a, b) == IF a < b THEN Less ELSE IF a > b THEN Greater ELSE Equal

\* Ordering::reverse
Reverse(o) == IF o = Less THEN Greater ELSE IF o = Greater THEN Less ELSE Equal

\* str::cmp: lexicographic on bytes, a proper prefix is smaller
RECURSIVE StrCmp(_, _)
StrCmp(s, t) ==
    IF s = <<>> /\ t = <<>> THEN Equal
    ELSE IF s = <<>> THEN Less
    ELSE IF t = <<>> THEN Greater
    ELSE IF Code(Head(s)) # Code(Head(t)) THEN IntCmp(Code(Head(s)), Code(Head(t)))
    ELSE StrCmp(Tail(s), Tail(t))

\* str::trim: whitespace is dropped at both ends
RECURSIVE TrimStart(_)
TrimStart(s) == IF s # <<>> /\ Head(s) = " " THEN TrimStart(Tail(s)) ELSE s

RECURSIVE TrimEnd(_)
TrimEnd(s) == IF s # <<>> /\ s[Len(s)] = " " THEN TrimEnd(SubSeq(s, 1, Len(s) - 1)) ELSE s

Trim(s) == TrimEnd(TrimStart(s))

\* str::split(','): the pieces between the commas; the empty string gives one empty piece
RECURSIVE SplitFrom(_, _, _)
SplitFrom(s, piece, done) ==
    IF s = <<>> THEN Append(done, piece)
    ELSE IF Head(s) = "," THEN SplitFrom(Tail(s), <<>>, Append(done, piece))
    ELSE SplitFrom(Tail(s), Append(piece, Head(s)), done)

Split(s) == SplitFrom(s, <<>>, <<>>)

I32_MAX == 2147483647
I32_MIN == -I32_MAX - 1

\* the digits of an i32 read left to right towards sign * digits; OptNone when a
\* character is not a digit or the value leaves the i32 range (checked_mul, checked_add)
RECURSIVE ParseDigits(_, _, _)
ParseDigits(s, acc, sign) ==
    IF s = <<>> THEN Some(acc)
    ELSE IF ~IsDigit(Head(s)) THEN OptNone
    ELSE LET d == DigitVal(Head(s))
         IN  IF sign = 1
             THEN IF acc > (I32_MAX - d) \div 10 THEN OptNone
                  ELSE ParseDigits(Tail(s), acc * 10 + d, sign)
             ELSE IF acc < (I32_MIN + d + 9) \div 10 THEN OptNone
                  ELSE ParseDigits(Tail(s), acc * 10 - d, sign)

\* str::parse::<i32>: an optional sign and at least one digit, nothing else
ParseI32(s) ==
    IF s = <<>> THEN OptNone
    ELSE IF Head(s) \in {"+", "-"}
    THEN IF Tail(s) = <<>> THEN OptNone
         ELSE ParseDigits(Tail(s), 0, IF Head(s) = "-" THEN -1 ELSE 1)
    ELSE ParseDigits(s, 0, 1)

\* the decimal digits of n <= 0, most significant first (empty for 0)
RECURSIVE WriteNegDigits(_)
WriteNegDigits(n) ==
    IF n = 0 THEN <<>>
    ELSE LET r == n % 10
             q == IF r = 0 THEN n \div 10 ELSE (n \div 10) + 1
         IN  Append(WriteNegDigits(q), DigitChar((10 - r) % 10))

\* i32 as decimal text: to_string
WriteI32(n) ==
    IF n = 0 THEN <<"0">>
    ELSE IF n < 0 THEN <<"-">> \o WriteNegDigits(n)
    ELSE WriteNegDigits(-n)

\* i32 addition that wraps modulo 2^32
WrapAdd(a, b) ==
    IF b > 0 /\ a > I32_MAX - b THEN (a - I32_MAX - 1) + (b - I32_MAX - 1)
    ELSE IF b < 0 /\ a < I32_MIN - b THEN (a - I32_MIN) + (b - I32_MIN)
    ELSE a + b

\* i32 multiplication of a count i >= 0 by b, wrapping modulo 2^32
RECURSIVE WrapMul(_, _)
WrapMul(i, b) == IF i = 0 THEN 0 ELSE WrapAdd(WrapMul(i - 1, b), b)

-----------------------------------------------------------------------------
(* Sorting engine, src/sorting.rs *)

None == "None"
Ascending == "Ascending"
Descending == "Descending"
SortOrder == {Ascending, Descending, None}

\* adjust_ordering
adjust_ordering(ordering, sort_order) ==
    CASE sort_order = Ascending -> ordering
      [] sort_order = Descending -> Reverse(ordering)
      [] sort_order = None -> Equal

\* compare_pids
compare_pids(pid_a, pid_b, sort_order) ==
    CASE sort_order = Ascending -> IntCmp(pid_a, pid_b)
      [] sort_order = Descending -> IntCmp(pid_b, pid_a)
      [] sort_order = None -> Equal

\* compare_positions with the Y comparison never reversed
compare_positions_y_unadjusted(p1, p2, xo, yo) ==
    LET cmpx == IF xo # None THEN adjust_ordering(IntCmp(p1[1], p2[1]), xo) ELSE Equal
    IN  IF cmpx = Equal /\ yo # None
        THEN IntCmp(p1[2], p2[2])
        ELSE cmpx

\* compare_positions: X first, Y when X ties or is not requested
compare_positions(p1, p2, xo, yo) ==
    LET cmpx == IF xo # None THEN adjust_ordering(IntCmp(p1[1], p2[1]), xo) ELSE Equal
    IN  IF cmpx = Equal /\ yo # None
        THEN adjust_ordering(IntCmp(p1[2], p2[2]), yo)
        ELSE cmpx

\* compare_items with the title compared without the x_order direction
compare_items_title_unadjusted(a, b, sp, xo, yo) ==
    LET position_cmp ==
            IF IsSome(a.pos) /\ IsSome(b.pos)
            THEN compare_positions(Unwrap(a.pos), Unwrap(b.pos), xo, yo)
            ELSE Equal
        title_cmp ==
            IF xo # None THEN StrCmp(a.title, b.title) ELSE Equal
    IN  IF position_cmp # Equal THEN position_cmp
        ELSE IF title_cmp # Equal THEN title_cmp
        ELSE compare_pids(a.pid, b.pid, sp)

\* compare_items: position, then title when x_order is requested, then pid
compare_items(a, b, sp, xo, yo) ==
    LET position_cmp ==
            IF IsSome(a.pos) /\ IsSome(b.pos)
            THEN compare_positions(Unwrap(a.pos), Unwrap(b.pos), xo, yo)
            ELSE Equal
        adjusted_cmp ==
            IF xo # None THEN adjust_ordering(StrCmp(a.title, b.title), xo) ELSE Equal
    IN  IF position_cmp # Equal THEN position_cmp
        ELSE IF adjusted_cmp # Equal THEN adjusted_cmp
        ELSE compare_pids(a.pid, b.pid, sp)

\* should_skip_sorting that never skips
should_skip_sorting_never(sp, xo, yo) == FALSE

\* should_skip_sorting
should_skip_sorting(sp, xo, yo) == sp = None /\ xo = None /\ yo = None

\* an insertion that also moves e left past elements it compares Equal to
RECURSIVE insert_tail_past_equal(_, _, _, _, _)
insert_tail_past_equal(s, e, sp, xo, yo) ==
    IF s = <<>> \/ compare_items(e, s[Len(s)], sp, xo, yo) = Greater
    THEN Append(s, e)
    ELSE Append(insert_tail_past_equal(SubSeq(s, 1, Len(s) - 1), e, sp, xo, yo), s[Len(s)])

\* one insertion of slice::sort_by: e moves left while it compares Less
RECURSIVE insert_tail(_, _, _, _, _)
insert_tail(s, e, sp, xo, yo) ==
    IF s = <<>> \/ compare_items(e, s[Len(s)], sp, xo, yo) # Less
    THEN Append(s, e)
    ELSE Append(insert_tail(SubSeq(s, 1, Len(s) - 1), e, sp, xo, yo), s[Len(s)])

\* a sort that builds the result from the back of the slice (sort_unstable_by-like:
\* elements that compare Equal come out in reverse)
RECURSIVE sort_by_from_back(_, _, _, _)
sort_by_from_back(s, sp, xo, yo) ==
    IF s = <<>> THEN <<>>
    ELSE insert_tail(sort_by_from_back(Tail(s), sp, xo, yo), Head(s), sp, xo, yo)

\* slice::sort_by with compare_items (insertion sort, the path taken by short slices)
RECURSIVE sort_by(_, _, _, _)
sort_by(s, sp, xo, yo) ==
    IF s = <<>> THEN <<>>
    ELSE insert_tail(sort_by(SubSeq(s, 1, Len(s) - 1), sp, xo, yo), s[Len(s)], sp, xo, yo)

\* apply_optimized_sorting
apply_optimized_sorting(s, sp, xo, yo) ==
    IF should_skip_sorting(sp, xo, yo) THEN s ELSE sort_by(s, sp, xo, yo)

-----------------------------------------------------------------------------
(* Layout calculator, src/utils.rs *)

\* Result<T, String>
Ok(v) == [ok |-> TRUE, val |-> v, err |-> ""]
Err(e) == [ok |-> FALSE, val |-> <<>>, err |-> e]

IsBlank(s) == Trim(s) = <<>>

DefaultStart == 0
DefaultStep == 100

\* number of TRUE entries of a tuple of booleans
CountTrue(bs) == Cardinality({i \in 1..Len(bs) : bs[i]})

\* validate_position_parameters that lets the first supplied method win
validate_position_parameters_by_priority(pos, lay, xs, ys, xst, yst) ==
    LET has_single_position == IsSome(pos)
        has_layout == IsSome(lay) /\ ~IsBlank(Unwrap(lay))
        has_grid == IsSome(xs) \/ IsSome(ys) \/ IsSome(xst) \/ IsSome(yst)
        method_count == CountTrue(<<has_single_position, has_layout, has_grid>>)
    IN  IF method_count = 0 THEN Err("No position method specified")
        ELSE Ok(<<>>)

\* validate_position_parameters
validate_position_parameters(pos, lay, xs, ys, xst, yst) ==
    LET has_single_position == IsSome(pos)
        has_layout == IsSome(lay) /\ ~IsBlank(Unwrap(lay))
        has_grid == IsSome(xs) \/ IsSome(ys) \/ IsSome(xst) \/ IsSome(yst)
        method_count == CountTrue(<<has_single_position, has_layout, has_grid>>)
    IN  IF method_count = 0 THEN Err("No position method specified")
        ELSE IF method_count > 1 THEN Err("Multiple position methods specified")
        ELSE Ok(<<>>)

\* parse_position: "X,Y" -> (x, y)
parse_position(position_str) ==
    LET parts == Split(position_str)
    IN  IF Len(parts) # 2 THEN Err("Invalid position format")
        ELSE LET x == ParseI32(Trim(parts[1]))
                 y == ParseI32(Trim(parts[2]))
             IN  IF ~IsSome(x) THEN Err("Invalid X coordinate")
                 ELSE IF ~IsSome(y) THEN Err("Invalid Y coordinate")
                 ELSE Ok(<<Unwrap(x), Unwrap(y)>>)

\* the loop of parse_layout over coords.chunks(2): the pairs read so far, or the
\* first coordinate that does not parse
RECURSIVE ParseChunks(_, _)
ParseChunks(cs, acc) ==
    IF cs = <<>> THEN Ok(acc)
    ELSE LET x == ParseI32(Trim(cs[1]))
             y == ParseI32(Trim(cs[2]))
         IN  IF ~IsSome(x) THEN Err("Invalid X coordinate in layout")
             ELSE IF ~IsSome(y) THEN Err("Invalid Y coordinate in layout")
             ELSE ParseChunks(SubSeq(cs, 3, Len(cs)), Append(acc, <<Unwrap(x), Unwrap(y)>>))

\* the loop of parse_layout with the two coordinates of a pair exchanged
RECURSIVE ParseChunksSwapped(_, _)
ParseChunksSwapped(cs, acc) ==
    IF cs = <<>> THEN Ok(acc)
    ELSE LET x == ParseI32(Trim(cs[1]))
             y == ParseI32(Trim(cs[2]))
         IN  IF ~IsSome(x) THEN Err("Invalid X coordinate in layout")
             ELSE IF ~IsSome(y) THEN Err("Invalid Y coordinate in layout")
             ELSE ParseChunksSwapped(SubSeq(cs, 3, Len(cs)), Append(acc, <<Unwrap(y), Unwrap(x)>>))

\* parse_layout that reads each pair as (Y, X)
parse_layout_swapped(layout_str, n) ==
    LET cs == Split(layout_str)
    IN  IF Len(cs) % 2 # 0 THEN Err("Layout must have even number of coordinates")
        ELSE LET parsed == ParseChunksSwapped(cs, <<>>)
             IN  IF ~parsed.ok THEN parsed
                 ELSE IF Len(parsed.val) < n THEN Err("Not enough positions in layout")
                 ELSE Ok(SubSeq(parsed.val, 1, n))

\* parse_layout that does not truncate the parsed pairs to n
parse_layout_untruncated(layout_str, n) ==
    LET cs == Split(layout_str)
    IN  IF Len(cs) % 2 # 0 THEN Err("Layout must have even number of coordinates")
        ELSE LET parsed == ParseChunks(cs, <<>>)
             IN  IF ~parsed.ok THEN parsed
                 ELSE IF Len(parsed.val) < n THEN Err("Not enough positions in layout")
                 ELSE Ok(parsed.val)

\* parse_layout: "X1,Y1,X2,Y2,..." -> the first n pairs
parse_layout(layout_str, n) ==
    LET cs == Split(layout_str)
    IN  IF Len(cs) % 2 # 0 THEN Err("Layout must have even number of coordinates")
        ELSE LET parsed == ParseChunks(cs, <<>>)
             IN  IF ~parsed.ok THEN parsed
                 ELSE IF Len(parsed.val) < n THEN Err("Not enough positions in layout")
                 ELSE Ok(SubSeq(parsed.val, 1, n))

\* a fallback that ignores the default and uses 0
ParseOr_zero(o, d) ==
    IF IsSome(o) /\ IsSome(ParseI32(Unwrap(o))) THEN Unwrap(ParseI32(Unwrap(o))) ELSE 0

\* s.as_ref().and_then(|s| s.parse().ok()).unwrap_or(d)
ParseOr(o, d) ==
    IF IsSome(o) /\ IsSome(ParseI32(Unwrap(o))) THEN Unwrap(ParseI32(Unwrap(o))) ELSE d

\* the grid loop: window i (0-based) gets (x_start + i * x_step, y_start + i * y_step)
GridPositions(n, xs, ys, xst, yst) ==
    [k \in 1..n |-> <<WrapAdd(xs, WrapMul(k - 1, xst)), WrapAdd(ys, WrapMul(k - 1, yst))>>]

\* least c with c * c >= n
CeilSqrt(n) == CHOOSE c \in 0..n : c * c >= n /\ \A b \in 0..n : b * b >= n => c <= b

\* the grid loop wrapping into rows of ceil(sqrt(n)) columns
GridPositionsWrapped(n, xs, ys, xst, yst) ==
    [k \in 1..n |->
        <<WrapAdd(xs, WrapMul((k - 1) % CeilSqrt(n), xst)),
          WrapAdd(ys, WrapMul((k - 1) \div CeilSqrt(n), yst))>>]

\* calculate_positions with the row/column grid
calculate_positions_wrapped(n, pos, lay, xs, ys, xst, yst) ==
    IF IsSome(pos)
    THEN LET p == parse_position(Unwrap(pos))
         IN  IF ~p.ok THEN p ELSE Ok([k \in 1..n |-> p.val])
    ELSE IF ~IsBlank(lay) THEN parse_layout(lay, n)
    ELSE IF IsSome(xs) \/ IsSome(ys)
    THEN Ok(GridPositionsWrapped(n, ParseOr(xs, DefaultStart), ParseOr(ys, DefaultStart),
                                    ParseOr(xst, DefaultStep), ParseOr(yst, DefaultStep)))
    ELSE Err("No valid position configuration found")

\* calculate_positions whose single position reaches the first window only
calculate_positions_first_only(n, pos, lay, xs, ys, xst, yst) ==
    IF IsSome(pos)
    THEN LET p == parse_position(Unwrap(pos))
         IN  IF ~p.ok THEN p ELSE Ok([k \in 1..(IF n = 0 THEN 0 ELSE 1) |-> p.val])
    ELSE IF ~IsBlank(lay) THEN parse_layout(lay, n)
    ELSE IF IsSome(xs) \/ IsSome(ys)
    THEN Ok(GridPositions(n, ParseOr(xs, DefaultStart), ParseOr(ys, DefaultStart),
                             ParseOr(xst, DefaultStep), ParseOr(yst, DefaultStep)))
    ELSE Err("No valid position configuration found")

\* calculate_positions: single position, then layout, then grid
calculate_positions(n, pos, lay, xs, ys, xst, yst) ==
    IF IsSome(pos)
    THEN LET p == parse_position(Unwrap(pos))
         IN  IF ~p.ok THEN p ELSE Ok([k \in 1..n |-> p.val])
    ELSE IF ~IsBlank(lay) THEN parse_layout(lay, n)
    ELSE IF IsSome(xs) \/ IsSome(ys)
    THEN Ok(GridPositions(n, ParseOr(xs, DefaultStart), ParseOr(ys, DefaultStart),
                             ParseOr(xst, DefaultStep), ParseOr(yst, DefaultStep)))
    ELSE Err("No valid position configuration found")

\* Option<String>::unwrap_or_default
UnwrapOrDefault(o) == IF IsSome(o) THEN Unwrap(o) ELSE <<>>

-----------------------------------------------------------------------------
(* Index lists (src/utils.rs) *)

\* the digits of a usize read left to right; OptNone when a character is not a
\* digit.  Values above 2^31 - 1 are read as 2^31 - 1: they, and the None that
\* usize overflow gives, lie above every max_index and are dropped alike.
RECURSIVE ParseUsizeDigits(_, _)
ParseUsizeDigits(s, acc) ==
    IF s = <<>> THEN Some(acc)
    ELSE IF ~IsDigit(Head(s)) THEN OptNone
    ELSE LET d == DigitVal(Head(s))
         IN  ParseUsizeDigits(Tail(s), IF acc > (I32_MAX - d) \div 10 THEN I32_MAX
                                       ELSE acc * 10 + d)

\* str::parse::<usize>: an optional "+" and at least one digit, nothing else
ParseUsize(s) ==
    IF s = <<>> THEN OptNone
    ELSE IF s = <<"+">> \/ s = <<"-">> THEN OptNone
    ELSE IF Head(s) = "+" THEN ParseUsizeDigits(Tail(s), 0)
    ELSE ParseUsizeDigits(s, 0)

\* the filter_map and filter of parse_indices over the pieces, with the upper
\* bound exclusive
RECURSIVE FilterIndicesExclusive(_, _, _)
FilterIndicesExclusive(pieces, max, acc) ==
    IF pieces = <<>> THEN acc
    ELSE LET trimmed == Trim(Head(pieces))
             idx == IF trimmed = <<>> THEN OptNone ELSE ParseUsize(trimmed)
         IN  FilterIndicesExclusive(Tail(pieces), max,
                 IF IsSome(idx) /\ Unwrap(idx) >= 1 /\ Unwrap(idx) < max
                 THEN Append(acc, Unwrap(idx)) ELSE acc)

\* parse_indices that drops the index max_index itself
parse_indices_exclusive(index_str, max) ==
    IF Trim(index_str) = <<>> THEN <<>>
    ELSE FilterIndicesExclusive(Split(index_str), max, <<>>)

\* the filter_map and filter of parse_indices over the pieces
RECURSIVE FilterIndices(_, _, _)
FilterIndices(pieces, max, acc) ==
    IF pieces = <<>> THEN acc
    ELSE LET trimmed == Trim(Head(pieces))
             idx == IF trimmed = <<>> THEN OptNone ELSE ParseUsize(trimmed)
         IN  FilterIndices(Tail(pieces), max,
                 IF IsSome(idx) /\ Unwrap(idx) >= 1 /\ Unwrap(idx) <= max
                 THEN Append(acc, Unwrap(idx)) ELSE acc)

\* parse_indices: "1,2,3" -> <<1, 2, 3>>
parse_indices(index_str, max) ==
    IF Trim(index_str) = <<>> THEN <<>>
    ELSE FilterIndices(Split(index_str), max, <<>>)

-----------------------------------------------------------------------------
(* Window handles (src/error.rs, src/platform/windows.rs, src/platform/unix.rs, *)
(* src/platform/interface.rs)                                                    *)

\* AppError: the kind, its message and, for MultipleWindows, its count
AppError(k, msg) == [kind |-> k, msg |-> msg, count |-> 0]
NoError == AppError("", "")
\* AppResult<T>
AppOk(v) == [ok |-> TRUE, val |-> v, err |-> NoError]
AppErr(k, msg) == [ok |-> FALSE, val |-> <<>>, err |-> AppError(k, msg)]

\* what a handle method leaves behind: its result, the native window after it
\* and the native calls it issued, in order
Done(res, w, trail) == [res |-> res, win |-> w, issued |-> trail]

\* the OS call fails on this window (the window is gone, or the OS refuses)
Fails(w, call) == call \in w.failing

\* primary display, GetSystemMetrics(SM_CXSCREEN / SM_CYSCREEN)
ScreenWidth == 1920
ScreenHeight == 1080

\* division by 2 rounding towards minus infinity
HalfFloor(a) == a \div 2

\* i32 division by 2, truncating towards zero
HalfTrunc(a) == IF a >= 0 THEN a \div 2 ELSE -((-a) \div 2)

NotVisible == AppErr("WindowOperation", "Window not visible or invalid handle")

\* the shape of minimize, maximize and restore: the visibility check, then ShowWindow
ShowWindowOp(w, state, failure) ==
    IF ~w.visible THEN Done(NotVisible, w, <<"IsWindowVisible">>)
    ELSE IF ~Fails(w, "ShowWindow")
    THEN Done(AppOk(<<>>), [w EXCEPT !.show = state], <<"IsWindowVisible", "ShowWindow">>)
    ELSE Done(AppErr("WindowOperation", failure), w, <<"IsWindowVisible", "ShowWindow">>)

WindowsWindowData_minimize(w) == ShowWindowOp(w, "minimized", "Failed to minimize window")
WindowsWindowData_maximize(w) == ShowWindowOp(w, "maximized", "Failed to maximize window")
WindowsWindowData_restore(w) == ShowWindowOp(w, "normal", "Failed to restore window")

WindowsWindowData_set_position(w, x, y) ==
    IF ~w.visible THEN Done(NotVisible, w, <<"IsWindowVisible">>)
    ELSE IF Fails(w, "GetWindowRect")
    THEN Done(AppErr("PlatformError", "Failed to get window rect"), w,
              <<"IsWindowVisible", "GetWindowRect">>)
    ELSE IF ~Fails(w, "SetWindowPos")
    THEN Done(AppOk(<<>>), [w EXCEPT !.left = x, !.top = y],
              <<"IsWindowVisible", "GetWindowRect", "SetWindowPos">>)
    ELSE Done(AppErr("WindowOperation", "Failed to set window position"), w,
              <<"IsWindowVisible", "GetWindowRect", "SetWindowPos">>)

WindowsWindowData_set_always_on_top(w, on_top) ==
    IF ~w.visible THEN Done(NotVisible, w, <<"IsWindowVisible">>)
    ELSE IF ~Fails(w, "SetWindowPos")
    THEN Done(AppOk(<<>>),
              [w EXCEPT !.ex_style = IF on_top THEN @ \cup {"WS_EX_TOPMOST"}
                                       ELSE @ \ {"WS_EX_TOPMOST"}],
              <<"IsWindowVisible", "SetWindowPos">>)
    ELSE Done(AppErr("WindowOperation", "Failed to set always on top state"), w,
              <<"IsWindowVisible", "SetWindowPos">>)

\* GetWindowLongW(hwnd, GWL_EXSTYLE): the extended styles, none (0) when the call fails
ExStyle(w) == IF Fails(w, "GetWindowLongW") THEN {} ELSE w.ex_style

WindowsWindowData_is_always_on_top(w) ==
    IF ExStyle(w) = {}
    THEN Done(AppErr("PlatformError", "Failed to get window style"), w, <<"GetWindowLongW">>)
    ELSE Done(AppOk("WS_EX_TOPMOST" \in ExStyle(w)), w, <<"GetWindowLongW">>)

\* a mapping that scales by 256 instead of 255
Alpha_scaled256(opacity) == ((opacity * 256) \div 100) % 256

\* (opacity as u32 * 255) / 100, then `as u8`
Alpha(opacity) == ((opacity * 255) \div 100) % 256

WindowsWindowData_set_transparency(w, opacity) ==
    IF ~w.visible THEN Done(NotVisible, w, <<"IsWindowVisible">>)
    ELSE IF ExStyle(w) = {}
    THEN Done(AppErr("PlatformError", "Failed to get window style"), w,
              <<"IsWindowVisible", "GetWindowLongW">>)
    ELSE IF Fails(w, "SetWindowLongW")
    THEN Done(AppErr("PlatformError", "Failed to set layered window style"), w,
              <<"IsWindowVisible", "GetWindowLongW", "SetWindowLongW">>)
    ELSE LET layered == [w EXCEPT !.ex_style = @ \cup {"WS_EX_LAYERED"}]
             trail == <<"IsWindowVisible", "GetWindowLongW", "SetWindowLongW",
                        "SetLayeredWindowAttributes">>
         IN  IF ~Fails(w, "SetLayeredWindowAttributes")
             THEN Done(AppOk(<<>>), [layered EXCEPT !.alpha = Alpha(opacity)], trail)
             ELSE Done(AppErr("PlatformError", "Failed to set window transparency"),
                       layered, trail)

WindowsWindowData_resize(w, width, height, keep_position, center) ==
    IF ~w.visible THEN Done(NotVisible, w, <<"IsWindowVisible">>)
    ELSE IF Fails(w, "GetWindowRect")
    THEN Done(AppErr("PlatformError", "Failed to get window rect"), w,
              <<"IsWindowVisible", "GetWindowRect">>)
    ELSE LET centred == ~keep_position /\ center
             x == IF centred THEN HalfTrunc(ScreenWidth - width) ELSE w.left
             y == IF centred THEN HalfTrunc(ScreenHeight - height) ELSE w.top
             trail == <<"IsWindowVisible", "GetWindowRect">>
                      \o (IF centred THEN <<"GetSystemMetrics", "GetSystemMetrics">> ELSE <<>>)
                      \o <<"SetWindowPos">>
         IN  IF ~Fails(w, "SetWindowPos")
             THEN Done(AppOk(<<>>),
                       [w EXCEPT !.left = x, !.top = y, !.width = width, !.height = height],
                       trail)
             ELSE Done(AppErr("WindowOperation", "Failed to resize window"), w, trail)

\* UnixWindowData whose methods do nothing and return Ok
UnixWindowData_impl_noop(w, feature) == Done(AppOk(<<>>), w, <<>>)

\* UnixWindowData: every *_impl returns feature_not_supported
UnixWindowData_impl(w, feature) == Done(AppErr("FeatureNotSupported", feature), w, <<>>)

\* WindowHandle / PlatformData: the match on the backend that produced the handle
minimize(pd, w) ==
    IF pd = "Windows" THEN WindowsWindowData_minimize(w)
    ELSE UnixWindowData_impl(w, "Window operations")
maximize(pd, w) ==
    IF pd = "Windows" THEN WindowsWindowData_maximize(w)
    ELSE UnixWindowData_impl(w, "Window operations")
restore(pd, w) ==
    IF pd = "Windows" THEN WindowsWindowData_restore(w)
    ELSE UnixWindowData_impl(w, "Window operations")
set_position(pd, w, x, y) ==
    IF pd = "Windows" THEN WindowsWindowData_set_position(w, x, y)
    ELSE UnixWindowData_impl(w, "Window position setting")
set_always_on_top(pd, w, on_top) ==
    IF pd = "Windows" THEN WindowsWindowData_set_always_on_top(w, on_top)
    ELSE UnixWindowData_impl(w, "Window always on top operations")
is_always_on_top(pd, w) ==
    IF pd = "Windows" THEN WindowsWindowData_is_always_on_top(w)
    ELSE UnixWindowData_impl(w, "Window always on top detection")
set_transparency(pd, w, opacity) ==
    IF pd = "Windows" THEN WindowsWindowData_set_transparency(w, opacity)
    ELSE UnixWindowData_impl(w, "Window transparency operations")
resize(pd, w, width, height, keep_position, center) ==
    IF pd = "Windows" THEN WindowsWindowData_resize(w, width, height, keep_position, center)
    ELSE UnixWindowData_impl(w, "Window resizing")

-----------------------------------------------------------------------------
(* Window discovery (src/platform/windows.rs, src/window.rs) *)

\* char::to_lowercase
LowerChar(c) == IF c = "A" THEN "a" ELSE IF c = "B" THEN "b" ELSE c
\* str::to_lowercase
ToLowercase(s) == [k \in 1..Len(s) |-> LowerChar(s[k])]

\* str::contains
Contains(hay, needle) ==
    \E k \in 0..(Len(hay) - Len(needle)) : SubSeq(hay, k + 1, k + Len(needle)) = needle

\* EnumWindows: the top-level windows in the order of the desktop; the hwnd is the
\* place on the desktop
EnumWindows(d) ==
    [k \in 1..Len(d) |-> [hwnd |-> k, pid |-> d[k].pid, title |-> d[k].title]]

SystemClasses == {"Progman", "WorkerW", "Shell_TrayWnd"}

\* enum_window_callback_with_handle: visible, titled, not a shell window, with a rect
enum_window_callback_with_handle(w) ==
    /\ w.visible
    /\ Len(w.title) > 0
    /\ Trim(w.title) # <<>>
    /\ w.class \notin SystemClasses
    /\ w.rect_ok

\* enum_windows_proc of window.rs: visible, titled, owned by a process
enum_windows_proc(w) ==
    /\ w.visible
    /\ Len(w.title) > 0
    /\ Trim(w.title) # <<>>
    /\ w.pid # 0

\* process_names.iter().find(|(pid, _)| pid == window.pid).map(lowercase).unwrap_or_default()
RECURSIVE ProcessName(_, _)
ProcessName(table, pid) ==
    IF table = <<>> THEN <<>>
    ELSE IF Head(table)[1] = pid THEN ToLowercase(Head(table)[2])
    ELSE ProcessName(Tail(table), pid)

NameMatches(table, name, w) ==
    ~IsSome(name) \/ Contains(ProcessName(table, w.pid), ToLowercase(Unwrap(name)))
TitleMatches(title, w) ==
    ~IsSome(title) \/ Contains(ToLowercase(w.title), ToLowercase(Unwrap(title)))

\* WindowHandle::new(pid, title, platform_data) for each kept window, in order
Handles(ws) ==
    [k \in 1..Len(ws) |-> [id |-> ws[k].hwnd, pid |-> ws[k].pid, title |-> ws[k].title,
                           pos |-> OptNone]]

\* the pid test of find_windows by string comparison, as window.rs makes it
PidMatchesText(pid, w) == ~IsSome(pid) \/ WriteI32(w.pid) = Unwrap(pid)

\* the pid test of platform find_windows: the filter is parsed, and tested only
\* when it parses
PidMatches(pid, w) ==
    \/ ~IsSome(pid)
    \/ ~IsSome(ParseUsize(Unwrap(pid)))
    \/ w.pid = Unwrap(ParseUsize(Unwrap(pid)))

\* find_windows of src/platform/windows.rs
find_windows(d, pid, name, title, table) ==
    LET seen(e) == enum_window_callback_with_handle(d[e.hwnd])
        keep(e) == PidMatches(pid, e) /\ NameMatches(table, name, e) /\ TitleMatches(title, e)
    IN  Handles(SelectSeq(SelectSeq(EnumWindows(d), seen), keep))

\* manipulation::find_windows of src/window.rs
manipulation_find_windows(d, pid, name, title, table) ==
    LET seen(e) == enum_windows_proc(d[e.hwnd])
        keep(e) == PidMatchesText(pid, e) /\ NameMatches(table, name, e) /\ TitleMatches(title, e)
    IN  Handles(SelectSeq(SelectSeq(EnumWindows(d), seen), keep))

-----------------------------------------------------------------------------
(* Command handlers (src/features, src/main.rs) *)

\* str::split('x')
RECURSIVE SplitXFrom(_, _, _)
SplitXFrom(s, piece, done) ==
    IF s = <<>> THEN Append(done, piece)
    ELSE IF Head(s) = "x" THEN SplitXFrom(Tail(s), <<>>, Append(done, piece))
    ELSE SplitXFrom(Tail(s), Append(piece, Head(s)), done)

\* a size check that accepts every width and height
any_size(w, h) == AppOk(<<w, h>>)

\* if width <= 0 || height <= 0 { return Err(AppError::invalid_parameter(..)) }
positive_size(w, h) ==
    IF w <= 0 \/ h <= 0
    THEN AppErr("InvalidParameter", "Width and height must be positive values")
    ELSE AppOk(<<w, h>>)

\* parse_size: "WIDTHxHEIGHT" -> (width, height)
parse_size(size_str) ==
    LET parts == SplitXFrom(size_str, <<>>, <<>>)
    IN  IF Len(parts) # 2 THEN AppErr("Parse", "Invalid size format")
        ELSE LET w == ParseI32(Trim(parts[1]))
                 h == ParseI32(Trim(parts[2]))
             IN  IF ~IsSome(w) THEN AppErr("Parse", "Invalid width")
                 ELSE IF ~IsSome(h) THEN AppErr("Parse", "Invalid height")
                 ELSE positive_size(Unwrap(w), Unwrap(h))

\* the size arguments of handle_resize: --size, or --width and --height
ResizeTarget(a) ==
    IF IsSome(a.size) THEN parse_size(Unwrap(a.size))
    ELSE IF ~IsSome(a.width) THEN AppErr("InvalidParameter", "Width is required")
    ELSE IF ~IsSome(ParseI32(Unwrap(a.width))) THEN AppErr("Parse", "Invalid width value")
    ELSE IF ~IsSome(a.height) THEN AppErr("InvalidParameter", "Height is required")
    ELSE IF ~IsSome(ParseI32(Unwrap(a.height))) THEN AppErr("Parse", "Invalid height value")
    ELSE positive_size(Unwrap(ParseI32(Unwrap(a.width))), Unwrap(ParseI32(Unwrap(a.height))))

\* the String error of validate_position_parameters / calculate_positions as the
\* AppError that handle_position_set returns
FromString(e) == AppError("InvalidParameter", e)

\* validation and calculation that never return early
position_set_unchecked(valid, calc) == NoError

\* validate_position_parameters(..)? and calculate_positions(..)? in
\* handle_position_set: the error it returns early with, if any
position_set_checks(valid, calc) ==
    IF ~valid.ok THEN FromString(valid.err)
    ELSE IF ~calc.ok THEN FromString(calc.err)
    ELSE NoError

\* the String error of execute_window_operation
StringError(e) == AppError("String", e)

MultipleWindows(n) == [kind |-> "MultipleWindows", msg |-> "", count |-> n]

\* the handlers that sort the handles and select them by --index / --all
IndexedHandlers ==
    {"handle_window_operation", "handle_transparency", "handle_resize", "handle_position_set"}
\* the handlers that refuse several windows without --all
SingleTargetHandlers == {"handle_always_on_top", "execute_window_operation"}
Handlers == IndexedHandlers \cup SingleTargetHandlers

Range(seq) == {seq[k] : k \in 1..Len(seq)}

\* the methods a handler invokes on one window, with what they leave behind; a
\* method before the last one returned Ok, the last one returned done.res
Invoked(done, methods) ==
    [res |-> done.res, win |-> done.win, issued |-> done.issued,
     methods |-> [k \in 1..Len(methods) |->
                     [method |-> methods[k], ok |-> k < Len(methods) \/ done.res.ok]]]

\* match operation { Minimize => window.minimize(), ... }
WindowOperation(op, pd, w) ==
    IF op = "minimize" THEN Invoked(minimize(pd, w), <<"minimize">>)
    ELSE IF op = "maximize" THEN Invoked(maximize(pd, w), <<"maximize">>)
    ELSE Invoked(restore(pd, w), <<"restore">>)

\* a toggle that looks at the window again when it writes
toggle_new_state_reread(current_state, w) == "WS_EX_TOPMOST" \notin w.ex_style

\* let new_state = !current_state;
toggle_new_state(current_state, w) == ~current_state

\* handle_always_on_top on one window: set the target state, or read and invert it
AlwaysOnTop(a, pd, w) ==
    IF a.off THEN Invoked(set_always_on_top(pd, w, FALSE), <<"set_always_on_top">>)
    ELSE IF ~a.toggle THEN Invoked(set_always_on_top(pd, w, TRUE), <<"set_always_on_top">>)
    ELSE LET read == is_always_on_top(pd, w)
         IN  IF ~read.res.ok THEN Invoked(read, <<"is_always_on_top">>)
             ELSE LET new_state == toggle_new_state(read.res.val, read.win)
                      write == set_always_on_top(pd, read.win, new_state)
                  IN  Invoked(Done(IF write.res.ok THEN AppOk(new_state) ELSE write.res,
                                   write.win, read.issued \o write.issued),
                              <<"is_always_on_top", "set_always_on_top">>)

\* a loop that hands the computed positions to the selected windows one after the
\* other: the j-th selected window gets the j-th position
SetPosition_by_rank(ps, i, pd, w) ==
    LET rank == IF indices = <<>> THEN i + 1
                ELSE Cardinality({k \in 1..(i + 1) : k \in Range(indices)})
    IN  Invoked(set_position(pd, w, ps[rank][1], ps[rank][2]), <<"set_position">>)

\* if let Some(pos) = positions.get(i) { window.set_position(pos.0, pos.1) }
SetPosition(ps, i, pd, w) ==
    IF i + 1 <= Len(ps) THEN Invoked(set_position(pd, w, ps[i + 1][1], ps[i + 1][2]), <<"set_position">>)
    ELSE Invoked(Done(AppErr("", ""), w, <<>>), <<>>)

-----------------------------------------------------------------------------
(* Inputs of the sorting runs *)

Pids == {100, 200}
Titles == {<<"A">>, <<"B">>}
Points == {<<0, 0>>, <<0, 5>>, <<-3, 0>>}

\* WindowInfo: get_position is Some((rect.x, rect.y)); id is the place in the enumeration
WindowInfo == [id : 1..MaxLen, pid : Pids, title : Titles, pos : {Some(p) : p \in Points}]
\* WindowHandle: get_position is None
WindowHandle == [id : 1..MaxLen, pid : Pids, title : Titles, pos : {OptNone}]

Slices(T) == UNION {{s \in [1..n -> T] : \A i \in 1..n : s[i].id = i} : n \in 0..MaxLen}

IdleLayout ==
    /\ window_count = 0
    /\ position = OptNone /\ layout = OptNone
    /\ x_start = OptNone /\ y_start = OptNone /\ x_step = OptNone /\ y_step = OptNone
    /\ validation = Err("") /\ positions = Err("") /\ coords = <<>>

IdleSort ==
    /\ kind = "WindowInfo" /\ items = <<>> /\ before = <<>>
    /\ sort_pid = None /\ x_order = None /\ y_order = None
    /\ calls = 0 /\ sortRan = FALSE

IdleIndex == index = <<>> /\ max_index = 0 /\ tokens = <<>> /\ indices = <<>>

DefaultArgs ==
    [size |-> OptNone, width |-> OptNone, height |-> OptNone, keep_position |-> FALSE,
     center |-> FALSE, level |-> 100, reset |-> FALSE, toggle |-> FALSE, off |-> FALSE]

IdleBatch ==
    /\ handler = "" /\ operation = "" /\ platform = "Windows"
    /\ windows = <<>> /\ native = <<>> /\ all = FALSE /\ args = DefaultArgs
    /\ target = <<0, 0>> /\ cursor = 0 /\ count = 0 /\ outcome = AppErr("", "")
    /\ issued = <<>> /\ received = <<>> /\ params = <<>>
    /\ flips = 0 /\ prior = <<>>

IdleDiscovery ==
    /\ desktop = <<>> /\ process_names = <<>>
    /\ pid_filter = OptNone /\ name_filter = OptNone /\ title_filter = OptNone

IdleRest == IdleIndex /\ IdleBatch /\ IdleDiscovery

SortInit ==
    /\ pc = "start"
    /\ kind \in {"WindowInfo", "WindowHandle"}
    /\ items \in IF kind = "WindowInfo" THEN Slices(WindowInfo) ELSE Slices(WindowHandle)
    /\ sort_pid \in SortOrder
    /\ x_order \in SortOrder
    /\ y_order \in SortOrder
    /\ calls = 0
    /\ sortRan = FALSE
    /\ before = items
    /\ IdleLayout
    /\ IdleRest

\* one call of apply_optimized_sorting on the slice
ApplyOptimizedSorting ==
    /\ calls < MaxCalls
    /\ items' = apply_optimized_sorting(items, sort_pid, x_order, y_order)
    /\ sortRan' = ~should_skip_sorting(sort_pid, x_order, y_order)
    /\ before' = items
    /\ calls' = calls + 1
    /\ pc' = "sorted"
    /\ UNCHANGED <<kind, sort_pid, x_order, y_order>>
    /\ UNCHANGED layoutVars
    /\ UNCHANGED restVars

\* apply_window_sorting: the WindowInfo entry point
ApplyWindowSorting ==
    /\ kind = "WindowInfo"
    /\ ApplyOptimizedSorting

\* apply_window_handle_sorting: the WindowHandle entry point
ApplyWindowHandleSorting ==
    /\ kind = "WindowHandle"
    /\ ApplyOptimizedSorting

SortNext == ApplyWindowSorting \/ ApplyWindowHandleSorting

SortSpec == SortInit /\ [][SortNext]_vars

-----------------------------------------------------------------------------
(* The layout step of the position-set command: validate, then calculate *)

PositionArgs ==
    {OptNone, Some(<<"1", "0", "0", ",", "2", "0", "0">>), Some(<<" ", "5", " ", ",", "-", "7">>),
     Some(<<"5">>)}
LayoutArgs ==
    {OptNone, Some(<<>>), Some(<<" ">>),
     Some(<<"1", ",", "2">>), Some(<<"1", ",", "2", ",", "3">>),
     Some(<<"1", ",", " ", "2", ",", "-", "3", ",", "4", ",", "5", ",", "6">>),
     Some(<<"1", ",", "x">>)}
XStartArgs ==
    {OptNone, Some(<<"0">>), Some(<<"2", "1", "4", "7", "4", "8", "3", "6", "4", "7">>), Some(<<" ", "5">>)}
YStartArgs ==
    {OptNone, Some(<<"0">>), Some(<<"-", "2", "1", "4", "7", "4", "8", "3", "6", "4", "8">>)}
XStepArgs ==
    {OptNone, Some(<<"1", "0", "0">>), Some(<<"2", "1", "4", "7", "4", "8", "3", "6", "4", "7">>), Some(<<"a">>)}
YStepArgs ==
    {OptNone, Some(<<"5", "0">>), Some(<<"-", "1">>)}

LayoutInit ==
    /\ pc = "start"
    /\ window_count \in 0..MaxWindows
    /\ position \in PositionArgs
    /\ layout \in LayoutArgs
    /\ x_start \in XStartArgs
    /\ y_start \in YStartArgs
    /\ x_step \in XStepArgs
    /\ y_step \in YStepArgs
    /\ validation = Err("")
    /\ positions = Err("")
    /\ coords = <<>>
    /\ IdleSort
    /\ IdleRest

\* validate_position_parameters(...)? accepts the combination
ValidateAccepts ==
    /\ pc = "start"
    /\ validation' = validate_position_parameters(position, layout, x_start, y_start, x_step, y_step)
    /\ validation'.ok
    /\ pc' = "validated"
    /\ UNCHANGED <<window_count, position, layout, x_start, y_start, x_step, y_step, positions, coords>>
    /\ UNCHANGED sortVars
    /\ UNCHANGED restVars

\* validate_position_parameters(...)? returns the error and the command ends
ValidateRejects ==
    /\ pc = "start"
    /\ validation' = validate_position_parameters(position, layout, x_start, y_start, x_step, y_step)
    /\ ~validation'.ok
    /\ pc' = "rejected"
    /\ UNCHANGED <<window_count, position, layout, x_start, y_start, x_step, y_step, positions, coords>>
    /\ UNCHANGED sortVars
    /\ UNCHANGED restVars

\* calculate_positions(windows.len(), &position, &layout.unwrap_or_default(), ...)
CalculatePositions ==
    /\ pc = "validated"
    /\ positions' = calculate_positions(window_count, position, UnwrapOrDefault(layout),
                                        x_start, y_start, x_step, y_step)
    /\ pc' = "calculated"
    /\ UNCHANGED <<window_count, position, layout, x_start, y_start, x_step, y_step, validation, coords>>
    /\ UNCHANGED sortVars
    /\ UNCHANGED restVars

LayoutNext == ValidateAccepts \/ ValidateRejects \/ CalculatePositions

LayoutSpec == LayoutInit /\ [][LayoutNext]_vars

-----------------------------------------------------------------------------
(* parse_layout called on a written list of integers *)

\* the integers of cs joined by sep
RECURSIVE WriteList(_, _)
WriteList(cs, sep) ==
    IF cs = <<>> THEN <<>>
    ELSE IF Len(cs) = 1 THEN WriteI32(cs[1])
    ELSE WriteI32(cs[1]) \o sep \o WriteList(Tail(cs), sep)

Coordinates == {0, -7, 120, I32_MAX, I32_MIN}
Separators == {<<",">>, <<",", " ">>}

ParseInit ==
    /\ pc = "start"
    /\ window_count \in 0..MaxWindows
    /\ coords \in UNION {[1..n -> Coordinates] : n \in 0..(2 * MaxPairs)}
    /\ layout \in {Some(WriteList(coords, sep)) : sep \in Separators}
    /\ position = OptNone
    /\ x_start = OptNone /\ y_start = OptNone /\ x_step = OptNone /\ y_step = OptNone
    /\ validation = Err("")
    /\ positions = Err("")
    /\ IdleSort
    /\ IdleRest

\* parse_layout(layout_str, window_count)
ParseLayout ==
    /\ pc = "start"
    /\ positions' = parse_layout(Unwrap(layout), window_count)
    /\ pc' = "parsed"
    /\ UNCHANGED <<window_count, position, layout, x_start, y_start, x_step, y_step, validation, coords>>
    /\ UNCHANGED sortVars
    /\ UNCHANGED restVars

ParseNext == ParseLayout

ParseSpec == ParseInit /\ [][ParseNext]_vars

-----------------------------------------------------------------------------
(* parse_indices called on a written list of tokens *)

\* a token as written and the integer it denotes, OptNone when it denotes none
IndexTokens ==
    {[text |-> <<"1">>, val |-> Some(1)],
     [text |-> <<" ", "2", " ">>, val |-> Some(2)],
     [text |-> <<"+", "3">>, val |-> Some(3)],
     [text |-> <<"0", "4">>, val |-> Some(4)],
     [text |-> <<"0">>, val |-> Some(0)],
     [text |-> <<"2", "1", "4", "7", "4", "8", "3", "6", "4", "7">>, val |-> Some(I32_MAX)],
     [text |-> <<"-", "1">>, val |-> Some(-1)],
     [text |-> <<>>, val |-> OptNone],
     [text |-> <<" ">>, val |-> OptNone],
     [text |-> <<"1", " ", "2">>, val |-> OptNone],
     [text |-> <<"x">>, val |-> OptNone]}

\* the texts of ts joined by commas
RECURSIVE WriteTokens(_)
WriteTokens(ts) ==
    IF ts = <<>> THEN <<>>
    ELSE IF Len(ts) = 1 THEN ts[1].text
    ELSE ts[1].text \o <<",">> \o WriteTokens(Tail(ts))

IndexInit ==
    /\ pc = "start"
    /\ tokens \in UNION {[1..n -> IndexTokens] : n \in 0..MaxTokens}
    /\ index = WriteTokens(tokens)
    /\ max_index \in 0..(MaxWindows + 1)
    /\ indices = <<>>
    /\ IdleSort
    /\ IdleLayout
    /\ IdleBatch
    /\ IdleDiscovery

\* parse_indices(index_str, max_index)
ParseIndices ==
    /\ pc = "start"
    /\ indices' = parse_indices(index, max_index)
    /\ pc' = "indexed"
    /\ UNCHANGED <<index, max_index, tokens>>
    /\ UNCHANGED <<sortVars, layoutVars, batchVars, discoveryVars>>

IndexNext == ParseIndices

IndexSpec == IndexInit /\ [][IndexNext]_vars

-----------------------------------------------------------------------------
(* One command: discovery result -> sort -> (layout) -> dispatch *)

OsCalls == {"ShowWindow", "GetWindowRect", "SetWindowPos", "GetWindowLongW", "SetWindowLongW",
            "SetLayeredWindowAttributes"}

\* the windows find_windows may return: title, and how the native window behaves
\* when the handler reaches it (still there, hidden since discovery, refusing every call)
WindowKinds ==
    {[title |-> <<"A">>, visible |-> TRUE, failing |-> {}],
     [title |-> <<"B">>, visible |-> TRUE, failing |-> {}],
     [title |-> <<"A">>, visible |-> FALSE, failing |-> {}],
     [title |-> <<"B">>, visible |-> TRUE, failing |-> OsCalls]}

\* the handle find_windows makes of the k-th enumerated window
HandleOf(k, wk) == [id |-> k, pid |-> 100, title |-> wk.title, pos |-> OptNone]
\* the native window behind it
NativeOf(k, wk) ==
    [visible |-> wk.visible, failing |-> wk.failing, show |-> "normal",
     left |-> 10 * k, top |-> 20 * k, width |-> 640, height |-> 480,
     ex_style |-> {"WS_EX_APPWINDOW"}, alpha |-> 255]

IndexArgs == {<<>>, <<"2">>, <<"3", ",", "1">>, <<"x", ",", "9">>, <<"0">>,
              <<"3", ",", "1", ",", "3">>}

SortPositionArgs == {<<None, None>>, <<Ascending, Ascending>>, <<Descending, None>>}

ResizeArgs ==
    {[DefaultArgs EXCEPT !.size = Some(<<"3", "2", "0", "x", "2", "0", "0">>)],
     [DefaultArgs EXCEPT !.size = Some(<<"3", "2", "0", "x", "2", "0", "0">>), !.center = TRUE],
     [DefaultArgs EXCEPT !.size = Some(<<"3", "2", "0">>)],
     [DefaultArgs EXCEPT !.size = Some(<<"3", "2", "0", "x", "a">>)],
     [DefaultArgs EXCEPT !.size = Some(<<"0", "x", "2", "0", "0">>)],
     [DefaultArgs EXCEPT !.width = Some(<<"3", "2", "0">>), !.height = Some(<<"2", "0", "0">>)],
     [DefaultArgs EXCEPT !.width = Some(<<"3", "2", "0">>)],
     [DefaultArgs EXCEPT !.size = Some(<<"3", "2", "0", "x", "-", "5">>)],
     [DefaultArgs EXCEPT !.width = Some(<<"0">>), !.height = Some(<<"2", "0", "0">>)],
     [DefaultArgs EXCEPT !.width = Some(<<"3", "2", "0">>), !.height = Some(<<"-", "1">>)]}

TransparencyArgs == {[DefaultArgs EXCEPT !.level = 50], [DefaultArgs EXCEPT !.reset = TRUE]}

AlwaysOnTopArgs ==
    {DefaultArgs, [DefaultArgs EXCEPT !.toggle = TRUE], [DefaultArgs EXCEPT !.off = TRUE]}

\* --position, --layout (default ""), --x-start, --y-start, --x-step, --y-step
PositionSetArgs ==
    {<<Some(<<"1", "0", "0", ",", "2", "0", "0">>), Some(<<>>), OptNone, OptNone, OptNone, OptNone>>,
     <<Some(<<"5">>), Some(<<>>), OptNone, OptNone, OptNone, OptNone>>,
     <<OptNone, Some(<<"1", ",", "2", ",", "3", ",", "4", ",", "5", ",", "6">>),
       OptNone, OptNone, OptNone, OptNone>>,
     <<OptNone, Some(<<"1", ",", "2">>), OptNone, OptNone, OptNone, OptNone>>,
     <<OptNone, Some(<<"1", ",", "2", ",", "3">>), OptNone, OptNone, OptNone, OptNone>>,
     <<OptNone, Some(<<>>), OptNone, OptNone, OptNone, OptNone>>,
     <<Some(<<"1", "0", "0", ",", "2", "0", "0">>), Some(<<"1", ",", "2">>),
       OptNone, OptNone, OptNone, OptNone>>,
     <<OptNone, Some(<<>>), Some(<<"0">>), OptNone, OptNone, Some(<<"5", "0">>)>>,
     <<OptNone, Some(<<>>), OptNone, OptNone, Some(<<"1", "0", "0">>), OptNone>>}

NoPositionArgs == <<OptNone, OptNone, OptNone, OptNone, OptNone, OptNone>>

BatchInit ==
    /\ pc = "start"
    /\ handler \in Handlers
    /\ operation \in IF handler \in {"handle_window_operation", "execute_window_operation"}
                     THEN {"minimize", "maximize", "restore"} ELSE {""}
    /\ platform \in {"Windows", "Unix"}
    /\ \E found \in UNION {[1..n -> WindowKinds] : n \in 0..MaxBatch} :
           /\ platform = "Unix" => found = <<>>
           /\ windows = [k \in 1..Len(found) |-> HandleOf(k, found[k])]
           /\ native = [k \in 1..Len(found) |-> NativeOf(k, found[k])]
    /\ all \in BOOLEAN
    /\ args \in IF handler = "handle_resize" THEN ResizeArgs
                ELSE IF handler = "handle_transparency" THEN TransparencyArgs
                ELSE IF handler = "handle_always_on_top" THEN AlwaysOnTopArgs
                ELSE {DefaultArgs}
    /\ index \in IF handler \in IndexedHandlers THEN IndexArgs ELSE {<<>>}
    /\ \E sp \in IF handler \in IndexedHandlers THEN SortPositionArgs ELSE {<<None, None>>} :
           x_order = sp[1] /\ y_order = sp[2]
    /\ \E pa \in IF handler = "handle_position_set" THEN PositionSetArgs ELSE {NoPositionArgs} :
           /\ position = pa[1] /\ layout = pa[2]
           /\ x_start = pa[3] /\ y_start = pa[4] /\ x_step = pa[5] /\ y_step = pa[6]
    /\ target = <<0, 0>> /\ cursor = 0 /\ count = 0 /\ outcome = AppErr("", "")
    /\ issued = <<>> /\ received = <<>> /\ params = <<>>
    /\ flips = 0 /\ prior = <<>>
    /\ max_index = 0 /\ tokens = <<>> /\ indices = <<>>
    /\ window_count = 0 /\ validation = Err("") /\ positions = Err("") /\ coords = <<>>
    /\ kind = "WindowHandle" /\ items = <<>> /\ before = <<>>
    /\ sort_pid = None /\ calls = 0 /\ sortRan = FALSE
    /\ IdleDiscovery

\* the handler up to its dispatch loop: argument parsing, the empty and multiple
\* checks on the discovered windows, the sort, parse_indices, and for the
\* position-set command validate_position_parameters and calculate_positions
HandlerPrologue ==
    /\ pc = "start"
    /\ LET size == IF handler = "handle_resize" THEN ResizeTarget(args) ELSE AppOk(target)
           discovered == size.ok /\ windows # <<>>
           sorts == discovered /\ handler \in IndexedHandlers
           valid == validate_position_parameters(position, layout, x_start, y_start,
                                                 x_step, y_step)
           calc == calculate_positions(Len(windows), position, UnwrapOrDefault(layout),
                                       x_start, y_start, x_step, y_step)
           lays == sorts /\ handler = "handle_position_set"
           early ==
               IF ~size.ok THEN size.err
               ELSE IF windows = <<>>
               THEN IF handler = "execute_window_operation"
                    THEN StringError("No matching windows found")
                    ELSE AppError("NoMatchingWindows", "")
               ELSE IF handler \in SingleTargetHandlers /\ ~all /\ Len(windows) > 1
               THEN IF handler = "execute_window_operation"
                    THEN StringError("Multiple windows found")
                    ELSE MultipleWindows(Len(windows))
               ELSE IF lays THEN position_set_checks(valid, calc)
               ELSE NoError
       IN  /\ target' = IF size.ok THEN size.val ELSE target
           /\ windows' = IF sorts THEN apply_optimized_sorting(windows, None, x_order, y_order)
                         ELSE windows
           /\ indices' = IF sorts THEN parse_indices(index, Len(windows)) ELSE indices
           /\ validation' = IF lays THEN valid ELSE validation
           /\ positions' = IF lays /\ valid.ok THEN calc ELSE positions
           /\ outcome' = IF early # NoError THEN [ok |-> FALSE, val |-> <<>>, err |-> early]
                         ELSE outcome
           /\ pc' = IF early # NoError THEN "done" ELSE "dispatch"
    /\ UNCHANGED <<handler, operation, platform, native, all, args, cursor, count, issued,
                   received, params, flips, prior>>
    /\ UNCHANGED <<kind, items, sort_pid, x_order, y_order, calls, sortRan, before>>
    /\ UNCHANGED <<window_count, position, layout, x_start, y_start, x_step, y_step, coords>>
    /\ UNCHANGED <<index, max_index, tokens>>
    /\ UNCHANGED discoveryVars

\* an index filter that takes the indices as 0-based
index_filtered_zero_based(i, idx) == idx # <<>> /\ i \notin Range(idx)

\* an index filter that is in force whenever an index string was given, also when
\* none of its entries is valid
index_filtered_strict(i, idx) == index # <<>> /\ (i + 1) \notin Range(idx)

\* if !indices.is_empty() && !indices.contains(&(i + 1)) { continue; }
index_filtered(i, idx) == idx # <<>> /\ (i + 1) \notin Range(idx)

\* if !all && indices.is_empty() && i > 0 { break; }
first_only(i, al, idx) == ~al /\ idx = <<>> /\ i > 0

\* a loop that makes one attempt on a window for every time its index is listed
after_attempt_per_entry(i, n, res) ==
    LET listed == Cardinality({k \in 1..Len(indices) : indices[k] = i + 1})
        made == Cardinality({j \in 1..Len(received) : received[j].id = windows[i + 1].id})
    IN  IF listed > made + 1 THEN i ELSE i + 1

\* a loop that ends at the first window whose operation fails
after_attempt_abort(i, n, res) == IF res.ok THEN i + 1 ELSE n

\* match result { Ok(..) => { count += 1 } Err(e) => { eprintln!(..) } }: the loop
\* goes on to the next window of the list (n windows) either way
after_attempt(i, n, res) == i + 1

\* what the handler invokes on window i (0-based) of the list
Dispatch(i) ==
    LET w == native[windows[i + 1].id]
    IN  IF handler \in {"handle_window_operation", "execute_window_operation"}
        THEN WindowOperation(operation, platform, w)
        ELSE IF handler = "handle_transparency"
        THEN Invoked(set_transparency(platform, w, IF args.reset THEN 100 ELSE args.level),
                     <<"set_transparency">>)
        ELSE IF handler = "handle_resize"
        THEN Invoked(resize(platform, w, target[1], target[2], args.keep_position, args.center),
                     <<"resize">>)
        ELSE IF handler = "handle_position_set"
        THEN SetPosition(positions.val, i, platform, w)
        ELSE AlwaysOnTop(args, platform, w)

\* one iteration of the dispatch loop
HandlerLoopBody ==
    /\ pc = "dispatch"
    /\ cursor < Len(windows)
    /\ LET i == cursor
           id == windows[i + 1].id
           skip == handler \in IndexedHandlers /\ index_filtered(i, indices)
           stop == handler \in IndexedHandlers /\ first_only(i, all, indices)
           done == Dispatch(i)
       IN  IF skip
           THEN cursor' = i + 1 /\ UNCHANGED <<native, issued, received, count>>
           ELSE IF stop
           THEN cursor' = Len(windows) /\ UNCHANGED <<native, issued, received, count>>
           ELSE /\ cursor' = after_attempt(i, Len(windows), done.res)
                /\ native' = [native EXCEPT ![id] = done.win]
                /\ issued' = issued \o [k \in 1..Len(done.issued) |->
                                           [id |-> id, call |-> done.issued[k]]]
                /\ received' = received \o [k \in 1..Len(done.methods) |->
                                               [id |-> id, method |-> done.methods[k].method,
                                                ok |-> done.methods[k].ok]]
                /\ count' = IF done.res.ok THEN count + 1 ELSE count
    /\ UNCHANGED <<handler, operation, platform, windows, all, args, target, outcome, params,
                   flips, prior>>
    /\ UNCHANGED <<pc, sortVars, layoutVars, indexVars, discoveryVars>>

\* after the loop: the success count, or the error of a batch without success
HandlerEpilogue ==
    /\ pc = "dispatch"
    /\ cursor = Len(windows)
    /\ outcome' = IF handler = "execute_window_operation" THEN AppOk(count)
                  ELSE IF count = 0 THEN AppErr("NoWindowsModified", "")
                  ELSE AppOk(count)
    /\ pc' = "done"
    /\ UNCHANGED <<handler, operation, platform, windows, native, all, args, target, cursor,
                   count, issued, received, params, flips, prior>>
    /\ UNCHANGED <<sortVars, layoutVars, indexVars, discoveryVars>>

BatchNext == HandlerPrologue \/ HandlerLoopBody \/ HandlerEpilogue

BatchSpec == BatchInit /\ [][BatchNext]_vars

-----------------------------------------------------------------------------
(* find_windows called on a desktop *)

DesktopWindows ==
    {[pid |-> 100, title |-> <<"A", "b">>, visible |-> TRUE, class |-> "Notepad", rect_ok |-> TRUE],
     [pid |-> 200, title |-> <<"b">>, visible |-> TRUE, class |-> "Notepad", rect_ok |-> TRUE],
     [pid |-> 100, title |-> <<"A", "b">>, visible |-> FALSE, class |-> "Notepad", rect_ok |-> TRUE],
     [pid |-> 200, title |-> <<" ">>, visible |-> TRUE, class |-> "Notepad", rect_ok |-> TRUE],
     [pid |-> 200, title |-> <<"A", "b">>, visible |-> TRUE, class |-> "Progman", rect_ok |-> TRUE],
     [pid |-> 0, title |-> <<"b">>, visible |-> TRUE, class |-> "Notepad", rect_ok |-> TRUE],
     [pid |-> 100, title |-> <<"b">>, visible |-> TRUE, class |-> "Notepad", rect_ok |-> FALSE]}

ProcessTables ==
    {<<(<<100, <<"A", "a">>>>), (<<200, <<"b">>>>)>>,
     <<(<<100, <<"A", "a">>>>)>>}

PidFilters == {OptNone, Some(<<"1", "0", "0">>), Some(<<"0", "1", "0", "0">>), Some(<<"x">>),
               Some(<<"3", "0", "0">>)}
NameFilters == {OptNone, Some(<<"a">>), Some(<<"B">>), Some(<<"x">>)}
TitleFilters == {OptNone, Some(<<"a", "B">>), Some(<<"x">>)}

DiscoveryInit ==
    /\ pc = "start"
    /\ desktop \in UNION {[1..n -> DesktopWindows] : n \in 0..MaxDesktop}
    /\ process_names \in ProcessTables
    /\ pid_filter \in PidFilters
    /\ name_filter \in NameFilters
    /\ title_filter \in TitleFilters
    /\ IdleSort
    /\ IdleLayout
    /\ IdleIndex
    /\ IdleBatch

\* crate::platform::find_windows, the discovery of the feature handlers
FindWindows ==
    /\ pc = "start"
    /\ windows' = find_windows(desktop, pid_filter, name_filter, title_filter, process_names)
    /\ handler' = "platform::find_windows"
    /\ pc' = "found"
    /\ UNCHANGED <<operation, platform, native, all, args, target, cursor, count, outcome,
                   issued, received, params, flips, prior>>
    /\ UNCHANGED <<sortVars, layoutVars, indexVars, discoveryVars>>

\* window::manipulation::find_windows
ManipulationFindWindows ==
    /\ pc = "start"
    /\ windows' = manipulation_find_windows(desktop, pid_filter, name_filter, title_filter,
                                            process_names)
    /\ handler' = "manipulation::find_windows"
    /\ pc' = "found"
    /\ UNCHANGED <<operation, platform, native, all, args, target, cursor, count, outcome,
                   issued, received, params, flips, prior>>
    /\ UNCHANGED <<sortVars, layoutVars, indexVars, discoveryVars>>

DiscoveryNext == FindWindows \/ ManipulationFindWindows

DiscoverySpec == DiscoveryInit /\ [][DiscoveryNext]_vars

-----------------------------------------------------------------------------
(* One method called on one handle *)

\* the native window behind the handle when the method is called
NativeWindows ==
    {[visible |-> v, failing |-> f, show |-> "normal", left |-> 10, top |-> 20,
      width |-> 640, height |-> 480, ex_style |-> e, alpha |-> 255] :
        v \in BOOLEAN,
        f \in {{}, OsCalls, {"ShowWindow"}, {"GetWindowRect"}, {"SetWindowPos"},
               {"GetWindowLongW"}, {"SetWindowLongW"}, {"SetLayeredWindowAttributes"}},
        e \in {{}, {"WS_EX_APPWINDOW"}, {"WS_EX_APPWINDOW", "WS_EX_TOPMOST"}}}

PointArgs == {<<0, 0>>, <<-50, 300>>}
SizeArgs == {<<320, 200>>, <<2000, 1081>>}
\* the levels the command line accepts: 0..=100
OpacityArgs == 0..100

HandleInit ==
    /\ pc = "start"
    /\ platform \in {"Windows", "Unix"}
    /\ windows = <<[id |-> 1, pid |-> 100, title |-> <<"A">>, pos |-> OptNone]>>
    /\ \E w \in NativeWindows : native = <<w>>
    /\ handler = "" /\ operation = "" /\ all = FALSE /\ args = DefaultArgs
    /\ target = <<0, 0>> /\ cursor = 0 /\ count = 0 /\ outcome = AppErr("", "")
    /\ issued = <<>> /\ received = <<>> /\ params = <<>>
    /\ flips = 0 /\ prior = <<>>
    /\ IdleSort
    /\ IdleLayout
    /\ IdleIndex
    /\ IdleDiscovery

\* the method returns: its result, the native window it leaves and the calls it issued
Returns(method, ps, done) ==
    /\ pc = "start"
    /\ operation' = method
    /\ params' = ps
    /\ outcome' = done.res
    /\ native' = <<done.win>>
    /\ issued' = [k \in 1..Len(done.issued) |-> [id |-> 1, call |-> done.issued[k]]]
    /\ received' = <<[id |-> 1, method |-> method, ok |-> done.res.ok]>>
    /\ pc' = "returned"
    /\ UNCHANGED <<handler, platform, windows, all, args, target, cursor, count, flips, prior>>
    /\ UNCHANGED <<sortVars, layoutVars, indexVars, discoveryVars>>

Minimize == Returns("minimize", <<>>, minimize(platform, native[1]))
Maximize == Returns("maximize", <<>>, maximize(platform, native[1]))
Restore == Returns("restore", <<>>, restore(platform, native[1]))
SetPosition_ ==
    \E p \in PointArgs : Returns("set_position", p, set_position(platform, native[1], p[1], p[2]))
Resize ==
    \E sz \in SizeArgs, keep \in BOOLEAN, ctr \in BOOLEAN :
        Returns("resize", <<sz[1], sz[2], keep, ctr>>,
                resize(platform, native[1], sz[1], sz[2], keep, ctr))
SetAlwaysOnTop ==
    \E on_top \in BOOLEAN :
        Returns("set_always_on_top", <<on_top>>, set_always_on_top(platform, native[1], on_top))
IsAlwaysOnTop == Returns("is_always_on_top", <<>>, is_always_on_top(platform, native[1]))
SetTransparency ==
    \E opacity \in OpacityArgs :
        Returns("set_transparency", <<opacity>>, set_transparency(platform, native[1], opacity))

HandleNext ==
    \/ Minimize \/ Maximize \/ Restore \/ SetPosition_ \/ Resize
    \/ SetAlwaysOnTop \/ IsAlwaysOnTop \/ SetTransparency

HandleSpec == HandleInit /\ [][HandleNext]_vars

-----------------------------------------------------------------------------
(* The toggle of handle_always_on_top on one window, next to another actor *)

MaxFlips == 2

Topmost(w) == "WS_EX_TOPMOST" \in w.ex_style

ToggleInit ==
    /\ pc = "start"
    /\ platform \in {"Windows", "Unix"}
    /\ windows = <<[id |-> 1, pid |-> 100, title |-> <<"A">>, pos |-> OptNone]>>
    /\ \E w \in NativeWindows : native = <<w>>
    /\ handler = "handle_always_on_top" /\ operation = "" /\ all = FALSE
    /\ args = [DefaultArgs EXCEPT !.toggle = TRUE]
    /\ target = <<0, 0>> /\ cursor = 0 /\ count = 0 /\ outcome = AppErr("", "")
    /\ issued = <<>> /\ received = <<>> /\ params = <<>>
    /\ flips = 0 /\ prior = <<>>
    /\ IdleSort
    /\ IdleLayout
    /\ IdleIndex
    /\ IdleDiscovery

\* match window.is_always_on_top() { Ok(current_state) => .., Err(e) => Err(e) }
ToggleRead ==
    /\ pc = "start"
    /\ LET read == is_always_on_top(platform, native[1])
       IN  /\ native' = <<read.win>>
           /\ issued' = issued \o [k \in 1..Len(read.issued) |-> [id |-> 1, call |-> read.issued[k]]]
           /\ received' = Append(received, [id |-> 1, method |-> "is_always_on_top",
                                            ok |-> read.res.ok])
           /\ params' = IF read.res.ok THEN <<read.res.val>> ELSE params
           /\ outcome' = IF read.res.ok THEN outcome ELSE read.res
           /\ pc' = IF read.res.ok THEN "read" ELSE "returned"
    /\ UNCHANGED <<handler, operation, platform, windows, all, args, target, cursor, count,
                   flips, prior>>
    /\ UNCHANGED <<sortVars, layoutVars, indexVars, discoveryVars>>

\* window.set_always_on_top(new_state).map(|_| new_state)
ToggleWrite ==
    /\ pc = "read"
    /\ LET new_state == toggle_new_state(params[1], native[1])
           write == set_always_on_top(platform, native[1], new_state)
       IN  /\ prior' = <<Topmost(native[1])>>
           /\ native' = <<write.win>>
           /\ issued' = issued \o [k \in 1..Len(write.issued) |-> [id |-> 1, call |-> write.issued[k]]]
           /\ received' = Append(received, [id |-> 1, method |-> "set_always_on_top",
                                            ok |-> write.res.ok])
           /\ outcome' = IF write.res.ok THEN AppOk(new_state) ELSE write.res
           /\ pc' = "returned"
    /\ UNCHANGED <<handler, operation, platform, windows, all, args, target, cursor, count,
                   params, flips>>
    /\ UNCHANGED <<sortVars, layoutVars, indexVars, discoveryVars>>

\* another process or the user changes the topmost flag of the window
OtherActor ==
    /\ pc \in {"start", "read"}
    /\ flips < MaxFlips
    /\ flips' = flips + 1
    /\ native' = <<[native[1] EXCEPT !.ex_style =
                        IF Topmost(native[1]) THEN @ \ {"WS_EX_TOPMOST"}
                        ELSE @ \cup {"WS_EX_TOPMOST"}]>>
    /\ UNCHANGED <<pc, handler, operation, platform, windows, all, args, target, cursor, count,
                   outcome, issued, received, params, prior>>
    /\ UNCHANGED <<sortVars, layoutVars, indexVars, discoveryVars>>

ToggleNext == ToggleRead \/ ToggleWrite \/ OtherActor

ToggleSpec == ToggleInit /\ [][ToggleNext]_vars

-----------------------------------------------------------------------------
(* Properties of the sorting engine *)

\* place of the element with identity id in slice s
Rank(s, id) == CHOOSE i \in 1..Len(s) : s[i].id = id

\* a and b came in this order in the slice the last call received
KeptOrder(a, b) == Rank(before, a.id) < Rank(before, b.id)

Pairs(s) == {p \in (1..Len(s)) \X (1..Len(s)) : p[1] < p[2]}

\* C1: with at least one order requested, sorting an already sorted slice again
\* leaves every element where it is: sort(sort(L,K),K) = sort(L,K).
C1_SortIdempotent ==
    (calls >= 2 /\ ~(sort_pid = None /\ x_order = None /\ y_order = None))
        => items = before

\* a second call was made on a slice the first call had reordered and that holds
\* elements comparing Equal
C1_Witness ==
    /\ calls = 2 /\ sortRan
    /\ Len(items) >= 3
    /\ \E i \in 1..Len(items) : items[i].id # i
    /\ \E p \in Pairs(items) :
           compare_items(items[p[1]], items[p[2]], sort_pid, x_order, y_order) = Equal

\* C2: when pid, x and y order are all None, every element stays at its index and
\* sort_by is not run at all.
C2_AllNoneIsIdentity ==
    (pc = "sorted" /\ sort_pid = None /\ x_order = None /\ y_order = None)
        => (items = before /\ ~sortRan)

\* a call with no order requested on a slice that is neither in pid nor in title order
C2_Witness ==
    /\ pc = "sorted" /\ sort_pid = None /\ x_order = None /\ y_order = None
    /\ Len(items) >= 2
    /\ items[1].pid > items[2].pid
    /\ StrCmp(items[1].title, items[2].title) = Greater

\* C3: for entities with position data, two entities that tie on the requested
\* position orders stand in the order the pid ordering gives them, and keep their
\* input order when the pid ordering is None or the pids are equal; the title
\* plays no part.
C3_PositionTieDecidedByPid ==
    (pc = "sorted" /\ kind = "WindowInfo") =>
        \A p \in Pairs(items) :
            LET a == items[p[1]]
                b == items[p[2]]
            IN  compare_positions(Unwrap(a.pos), Unwrap(b.pos), x_order, y_order) = Equal
                => /\ compare_pids(a.pid, b.pid, sort_pid) # Greater
                   /\ compare_pids(a.pid, b.pid, sort_pid) = Equal => KeptOrder(a, b)

TitleInDirection(s, dir) ==
    \A p \in Pairs(s) : adjust_ordering(StrCmp(s[p[1]].title, s[p[2]].title), dir) # Greater

\* C4 as stated: for entities without position data, whenever x order or y order
\* is requested the result is in title order, in the direction of the x order
\* (in either direction when the x order gives none).
C4_HandlesInTitleOrder ==
    (pc = "sorted" /\ kind = "WindowHandle" /\ (x_order # None \/ y_order # None)) =>
        IF x_order # None
        THEN TitleInDirection(items, x_order)
        ELSE TitleInDirection(items, Ascending) \/ TitleInDirection(items, Descending)

\* C4 amended: for entities without position data the result is in title order, in
\* the direction of the x order, whenever the x order is requested; when the x order
\* is None the title is not consulted, also when a y order is requested: the pid
\* ordering alone decides and entities it leaves tied keep their input order.
C4_HandlesInTitleOrderWhenXRequested ==
    (pc = "sorted" /\ kind = "WindowHandle") =>
        /\ x_order # None => TitleInDirection(items, x_order)
        /\ x_order = None =>
              \A p \in Pairs(items) :
                  LET a == items[p[1]]
                      b == items[p[2]]
                  IN  /\ compare_pids(a.pid, b.pid, sort_pid) # Greater
                      /\ compare_pids(a.pid, b.pid, sort_pid) = Equal => KeptOrder(a, b)

\* handles sorted by descending title that came in another order
C4_Witness ==
    /\ pc = "sorted" /\ kind = "WindowHandle" /\ calls = 1
    /\ x_order = Descending
    /\ Len(items) >= 3
    /\ StrCmp(items[1].title, items[Len(items)].title) = Greater
    /\ items[1].id > items[2].id

XOf(e) == Unwrap(e.pos)[1]
YOf(e) == Unwrap(e.pos)[2]

InDirection(u, v, dir) ==
    /\ dir = Ascending => u <= v
    /\ dir = Descending => u >= v

C6_StableSort ==
    pc = "sorted" =>
        \A p \in Pairs(items) :
            compare_items(items[p[1]], items[p[2]], sort_pid, x_order, y_order) = Equal
                => KeptOrder(items[p[1]], items[p[2]])

\* a call that moved an element in front of two elements that compare Equal and differ
C6_Witness ==
    /\ pc = "sorted" /\ calls = 1 /\ sortRan
    /\ Len(items) >= 3
    /\ items[1].id = 3
    /\ compare_items(items[2], items[3], sort_pid, x_order, y_order) = Equal
    /\ items[2].pid # items[3].pid

-----------------------------------------------------------------------------
(* Properties of the layout calculator *)

HasNonBlank(s) == \E i \in 1..Len(s) : s[i] # " "

SinglePositionSupplied == position # OptNone
LayoutSupplied == layout # OptNone /\ HasNonBlank(Unwrap(layout))
GridSupplied == x_start # OptNone \/ y_start # OptNone \/ x_step # OptNone \/ y_step # OptNone

ModesSupplied ==
    (IF SinglePositionSupplied THEN 1 ELSE 0) + (IF LayoutSupplied THEN 1 ELSE 0)
        + (IF GridSupplied THEN 1 ELSE 0)

\* C7: validate_position_parameters returns Ok exactly when one of the three modes
\* (position; non-blank layout; any of x_start, y_start, x_step, y_step) is supplied,
\* and an error when none or more than one is.
C7_ValidateExactlyOneMode ==
    pc \in {"validated", "rejected"} =>
        /\ validation.ok <=> ModesSupplied = 1
        /\ pc = "validated" <=> validation.ok

\* a position and a non-blank layout given together are rejected
C7_Witness ==
    /\ pc = "rejected"
    /\ SinglePositionSupplied /\ LayoutSupplied /\ ~GridSupplied
    /\ ~validation.ok

\* every piece of s between commas is an i32 once trimmed
AllPiecesParse(s) == \A i \in 1..Len(Split(s)) : IsSome(ParseI32(Trim(Split(s)[i])))

WellFormedValues ==
    /\ SinglePositionSupplied =>
          Len(Split(Unwrap(position))) = 2 /\ AllPiecesParse(Unwrap(position))
    /\ LayoutSupplied =>
          /\ Len(Split(Unwrap(layout))) % 2 = 0
          /\ AllPiecesParse(Unwrap(layout))
          /\ Len(Split(Unwrap(layout))) >= 2 * window_count
    /\ \A o \in {x_start, y_start, x_step, y_step} : IsSome(o) => IsSome(ParseI32(Unwrap(o)))

\* C8: for every combination that validate_position_parameters accepts and whose
\* values are well-formed, calculate_positions returns N positions and no error,
\* Grid mode given by any non-empty subset of the four grid parameters included.
C8_AcceptedModeYieldsPositions ==
    (pc = "calculated" /\ WellFormedValues) =>
        (positions.ok /\ Len(positions.val) = window_count)

Lo16(v) == v % 65536
Hi16(v) == (v \div 65536) % 65536

\* r is a + i * b as an i32: in range and congruent modulo 2^32
IsI32Of(r, a, i, b) ==
    LET lo == Lo16(a) + i * Lo16(b)
        hi == Hi16(a) + i * Hi16(b) + (lo \div 65536)
    IN  /\ r >= I32_MIN /\ r <= I32_MAX
        /\ Lo16(r) = lo % 65536
        /\ Hi16(r) = hi % 65536

\* calculate_positions took its grid branch
GridBranch ==
    /\ pc = "calculated"
    /\ position = OptNone
    /\ ~LayoutSupplied
    /\ (x_start # OptNone \/ y_start # OptNone)

\* C9: in Grid mode exactly N positions are returned and the i-th (0-based) is
\* (x_start + i*x_step, y_start + i*y_step) on 32-bit signed integers, a linear
\* arrangement; start (0,0), step (100,50), N = 3 gives (0,0), (100,50), (200,100).
C9_GridIsLinear ==
    GridBranch =>
        /\ positions.ok
        /\ Len(positions.val) = window_count
        /\ \A i \in 0..(window_count - 1) :
              /\ IsI32Of(positions.val[i + 1][1], ParseOr(x_start, 0), i, ParseOr(x_step, 100))
              /\ IsI32Of(positions.val[i + 1][2], ParseOr(y_start, 0), i, ParseOr(y_step, 100))
        /\ ( /\ x_start = Some(<<"0">>) /\ y_start = Some(<<"0">>)
             /\ x_step = Some(<<"1", "0", "0">>) /\ y_step = Some(<<"5", "0">>)
             /\ window_count = 3 )
           => positions.val = << <<0, 0>>, <<100, 50>>, <<200, 100>> >>

\* a grid of three windows whose X leaves the i32 range at the second window
C9_Witness ==
    /\ GridBranch
    /\ window_count = 3
    /\ ParseOr(x_start, 0) = I32_MAX /\ ParseOr(x_step, 100) = 100
    /\ y_step = Some(<<"5", "0">>)
    /\ positions.val[2][1] < 0
    /\ positions.val[3][2] = positions.val[1][2] + 100

PairsOf(cs) == [k \in 1..(Len(cs) \div 2) |-> <<cs[2 * k - 1], cs[2 * k]>>]

\* C10 as stated: for every N and every list of exactly 2N integers parse_layout
\* returns the N pairs (list[2k], list[2k+1]) in input order.
C10_ExplicitRoundTrip ==
    (pc = "parsed" /\ Len(coords) = 2 * window_count) =>
        (positions.ok /\ positions.val = PairsOf(coords))

\* C10 amended: for every N >= 1 and every list of exactly 2N integers parse_layout
\* returns the N pairs (list[2k], list[2k+1]) in input order; for N = 0 the list is
\* empty, its text is the empty string, and parse_layout returns the odd-count error.
C10_ExplicitRoundTripNonEmpty ==
    (pc = "parsed" /\ Len(coords) = 2 * window_count) =>
        IF window_count >= 1
        THEN positions.ok /\ positions.val = PairsOf(coords)
        ELSE ~positions.ok /\ positions.err = "Layout must have even number of coordinates"

\* two pairs with distinct coordinates, the i32 extremes among them, read back
C10_Witness ==
    /\ pc = "parsed" /\ window_count = 2 /\ Len(coords) = 4
    /\ coords[1] = I32_MIN /\ coords[2] = I32_MAX /\ coords[3] = -7 /\ coords[4] = 120
    /\ positions.ok /\ Len(positions.val) = 2

-----------------------------------------------------------------------------
(* Explicit layout lists of the wrong length *)

\* C11: parse_layout on a written list of integers and a target count N: a list
\* with an odd number of coordinates is an error (the odd-count error); an even
\* list with fewer than N pairs is an error; an even list with more than N pairs
\* succeeds and returns exactly its first N pairs.
C11_LayoutLengthPolicy ==
    pc = "parsed" =>
        /\ Len(coords) % 2 = 1 =>
               (~positions.ok /\ positions.err = "Layout must have even number of coordinates")
        /\ (Len(coords) % 2 = 0 /\ Len(coords) \div 2 < window_count) => ~positions.ok
        /\ (Len(coords) % 2 = 0 /\ Len(coords) \div 2 > window_count) =>
               (positions.ok /\ positions.val = SubSeq(PairsOf(coords), 1, window_count))

\* two pairs written, one window: the first pair alone comes back
C11_Witness ==
    /\ pc = "parsed" /\ window_count = 1 /\ Len(coords) = 4
    /\ coords[1] # coords[3]
    /\ positions.ok /\ positions.val = <<(<<coords[1], coords[2]>>)>>

-----------------------------------------------------------------------------
(* Single mode *)

\* s without its blanks
RECURSIVE StripBlanks(_)
StripBlanks(s) ==
    IF s = <<>> THEN <<>>
    ELSE IF Head(s) = " " THEN StripBlanks(Tail(s))
    ELSE <<Head(s)>> \o StripBlanks(Tail(s))

\* coordinates a --position argument may be written from
PositionValues == {-7, 0, 5, 100, 200}

\* C12: when --position is the text "X,Y" of two integers (blanks around them
\* allowed), calculate_positions succeeds for every target count N >= 0 and returns
\* exactly N copies of (X, Y).
C12_SingleModeRepeats ==
    \A x \in PositionValues, y \in PositionValues :
        (/\ pc = "calculated"
         /\ IsSome(position)
         /\ StripBlanks(Unwrap(position)) = WriteI32(x) \o <<",">> \o WriteI32(y)) =>
            (positions.ok /\ positions.val = [k \in 1..window_count |-> <<x, y>>])

\* " 5 ,-7" for three windows gives (5, -7) three times
C12_Witness ==
    /\ pc = "calculated" /\ window_count = 3
    /\ position = Some(<<" ", "5", " ", ",", "-", "7">>)
    /\ positions.ok /\ positions.val = <<(<<5, -7>>), (<<5, -7>>), (<<5, -7>>)>>

-----------------------------------------------------------------------------
(* Index lists *)

\* the integers the tokens denote that lie in 1..max, in the order of the tokens
RECURSIVE InRangeValues(_, _)
InRangeValues(ts, max) ==
    IF ts = <<>> THEN <<>>
    ELSE (IF IsSome(Head(ts).val) /\ Unwrap(Head(ts).val) \in 1..max
          THEN <<Unwrap(Head(ts).val)>> ELSE <<>>) \o InRangeValues(Tail(ts), max)

\* C13: parse_indices returns, in input order, exactly the comma-separated tokens
\* that denote an integer i with 1 <= i <= max_index: out-of-range and non-numeric
\* tokens are dropped, empty and blank tokens are skipped, the empty string gives
\* the empty list, and every returned index lies in 1..max_index.
C13_IndicesInRangeInOrder ==
    pc = "indexed" =>
        /\ indices = InRangeValues(tokens, max_index)
        /\ \A k \in 1..Len(indices) : indices[k] \in 1..max_index
        /\ index = <<>> => indices = <<>>

\* "+3,,1" with max_index 3: the blank token is skipped and 3 stays before 1
C13_Witness ==
    /\ pc = "indexed" /\ max_index = 3
    /\ index = <<"+", "3", ",", ",", "1">>
    /\ indices = <<3, 1>>

-----------------------------------------------------------------------------
(* Batch dispatch *)

\* the window operations that succeeded (the read of a toggle is not an operation
\* of its own)
Successes ==
    Cardinality({k \in 1..Len(received) :
                    received[k].ok /\ received[k].method # "is_always_on_top"})

\* the dispatch loop ran over at least one discovered window and the handler returned
BatchCompleted == pc = "done" /\ windows # <<>> /\ cursor = Len(windows)

\* C14: a batch command over N >= 1 candidate windows succeeds iff at least one
\* window operation succeeded, the count it reports is the number of operations
\* that succeeded, and with zero successes it fails with NoWindowsModified.
C14_BatchSucceedsIffOneSuccess ==
    BatchCompleted =>
        /\ outcome.ok <=> Successes >= 1
        /\ outcome.ok => outcome.val = Successes
        /\ Successes = 0 => (~outcome.ok /\ outcome.err.kind = "NoWindowsModified")

-----------------------------------------------------------------------------
(* Discovery filters *)

\* the windows the enumeration of the finder that ran hands to its filters
Candidates ==
    LET seen(e) == IF handler = "platform::find_windows"
                   THEN enum_window_callback_with_handle(desktop[e.hwnd])
                   ELSE enum_windows_proc(desktop[e.hwnd])
    IN  SelectSeq(EnumWindows(desktop), seen)

\* a window passes the pid filter when the decimal text of its pid is the filter
PassesPid(w) == WriteI32(w.pid) = Unwrap(pid_filter)
\* a window passes the name filter when the name of its process contains the
\* filter, letter case aside
PassesName(w) == Contains(ProcessName(process_names, w.pid), ToLowercase(Unwrap(name_filter)))
\* a window passes the title filter when its title contains the filter, letter case aside
PassesTitle(w) == Contains(ToLowercase(w.title), ToLowercase(Unwrap(title_filter)))

Returned(w) == \E j \in 1..Len(windows) : windows[j].id = w.hwnd

\* C15: find_windows returns exactly the enumerated windows that pass every
\* supplied filter (pid by exact string comparison, name, title); a supplied filter
\* that no enumerated window passes makes the result empty, whatever the other
\* filters are.
C15_FiltersAreAnded ==
    pc = "found" =>
        /\ \A k \in 1..Len(Candidates) :
               Returned(Candidates[k]) <=>
                   /\ IsSome(pid_filter) => PassesPid(Candidates[k])
                   /\ IsSome(name_filter) => PassesName(Candidates[k])
                   /\ IsSome(title_filter) => PassesTitle(Candidates[k])
        /\ (IsSome(pid_filter) /\ \A k \in 1..Len(Candidates) : ~PassesPid(Candidates[k]))
               => windows = <<>>
        /\ (IsSome(name_filter) /\ \A k \in 1..Len(Candidates) : ~PassesName(Candidates[k]))
               => windows = <<>>
        /\ (IsSome(title_filter) /\ \A k \in 1..Len(Candidates) : ~PassesTitle(Candidates[k]))
               => windows = <<>>

-----------------------------------------------------------------------------
(* Handles *)

HandleMethods == {"minimize", "maximize", "restore", "set_position", "resize",
                  "set_always_on_top", "is_always_on_top", "set_transparency"}

\* C16: on the backend without native windowing support each of minimize, maximize,
\* restore, set_position, resize, set_always_on_top, is_always_on_top and
\* set_transparency fails with FeatureNotSupported; none returns Ok, and none
\* touches a native window.
C16_UnsupportedBackendFails ==
    (pc = "returned" /\ platform = "Unix") =>
        /\ operation \in HandleMethods
        /\ ~outcome.ok
        /\ outcome.err.kind = "FeatureNotSupported"
        /\ issued = <<>>

\* set_transparency on the Unix backend has returned FeatureNotSupported
C16_Witness ==
    /\ pc = "returned" /\ platform = "Unix"
    /\ operation = "set_transparency" /\ params = <<33>>
    /\ outcome.err.kind = "FeatureNotSupported"
    /\ native[1].alpha = 255

\* C17: a handle method called on a native window that is no longer visible fails
\* with WindowOperation and issues no native call besides the visibility check.
C17_RecheckBeforeNativeCalls ==
    (pc = "returned" /\ platform = "Windows" /\ ~native[1].visible) =>
        /\ ~outcome.ok
        /\ outcome.err.kind = "WindowOperation"
        /\ \A k \in 1..Len(issued) : issued[k].call = "IsWindowVisible"

-----------------------------------------------------------------------------
(* Fail-fast of the position-set command *)

\* the position-set command has nothing to position, or its parameters are rejected
FailsFast ==
    \/ windows = <<>>
    \/ ~validate_position_parameters(position, layout, x_start, y_start, x_step, y_step).ok
    \/ ~calculate_positions(Len(windows), position, UnwrapOrDefault(layout),
                            x_start, y_start, x_step, y_step).ok

\* C18: when discovery returns no window, the layout parameter combination is
\* invalid or the position calculation fails, the position-set command returns an
\* error and never enters its dispatch loop: set_position has been called on no
\* window and no native call has been issued.
C18_PositionSetFailsFast ==
    (handler = "handle_position_set" /\ pc # "start" /\ FailsFast) =>
        /\ pc = "done"
        /\ ~outcome.ok
        /\ cursor = 0
        /\ received = <<>>
        /\ issued = <<>>
        /\ \A k \in 1..Len(native) : native[k] = NativeOf(k, native[k])

\* three visible windows, --all, a valid layout of one pair: calculate_positions
\* fails and the command has returned without touching a window
C18_Witness ==
    /\ handler = "handle_position_set" /\ pc = "done" /\ platform = "Windows"
    /\ Len(windows) = 3 /\ all
    /\ \A k \in 1..3 : native[k].visible /\ native[k].failing = {}
    /\ layout = Some(<<"1", ",", "2">>) /\ position = OptNone
    /\ validation.ok /\ ~positions.ok
    /\ ~outcome.ok /\ outcome.err.msg = positions.err
    /\ received = <<>>

-----------------------------------------------------------------------------
(* Selection in the index-addressed handlers *)

\* window k (1-based) of the sorted list is selected by --index / --all
Selected(k) ==
    IF indices # <<>> THEN k \in Range(indices)
    ELSE all \/ k = 1

\* the methods the window with handle id has received
ReceivedBy(id) == {j \in 1..Len(received) : received[j].id = id}

-----------------------------------------------------------------------------
(* Error kind of bad input *)

\* a "WIDTHxHEIGHT" text with a wrong number of parts or a non-numeric part
MalformedSize(size_str) ==
    LET parts == SplitXFrom(size_str, <<>>, <<>>)
    IN  \/ Len(parts) # 2
        \/ \E k \in 1..Len(parts) : ~IsSome(ParseI32(Trim(parts[k])))

\* the resize command was given a malformed --size
BadSizeGiven ==
    handler = "handle_resize" /\ IsSome(args.size) /\ MalformedSize(Unwrap(args.size))

\* the position-set command reached the layout with an odd coordinate count
OddLayoutGiven ==
    /\ handler = "handle_position_set" /\ windows # <<>>
    /\ ~IsSome(position) /\ IsSome(layout) /\ Unwrap(layout) # <<>>
    /\ validate_position_parameters(position, layout, x_start, y_start, x_step, y_step).ok
    /\ Len(Split(Unwrap(layout))) % 2 = 1

\* C20: a command given a malformed "WIDTHxHEIGHT" size, or a layout list with an
\* odd coordinate count, fails with the InvalidParameter error kind.
C20_BadInputIsInvalidParameter ==
    (pc = "done" /\ (BadSizeGiven \/ OddLayoutGiven)) =>
        (~outcome.ok /\ outcome.err.kind = "InvalidParameter")

-----------------------------------------------------------------------------
(* Order of the attempts of a batch *)

\* window k (1-based) of the list is one the handler operates on
SelectedFor(k) == handler \in IndexedHandlers => Selected(k)

\* the place in the list of the window with handle id
PlaceOf(id) == CHOOSE k \in 1..Len(windows) : windows[k].id = id

\* C21: while and after a batch handler runs its loop, the windows attempted so
\* far are the selected windows among those the loop has passed, attempted in the
\* order of the sorted list and each in one attempt (the toggle's read and write
\* on one window are adjacent); a failed attempt is followed by the attempts on
\* the selected windows after it.
C21_SequentialInListOrder ==
    (handler \in Handlers /\ pc \in {"dispatch", "done"} /\ windows # <<>>) =>
        /\ \A a, b \in 1..Len(received) :
               a < b => PlaceOf(received[a].id) <= PlaceOf(received[b].id)
        /\ \A a, b \in 1..Len(received) :
               (a < b /\ received[a].id = received[b].id) =>
                   /\ handler = "handle_always_on_top" /\ args.toggle
                   /\ b = a + 1
                   /\ received[a].method = "is_always_on_top"
                   /\ received[b].method = "set_always_on_top"
        /\ \A k \in 1..Len(windows) :
               (k <= cursor /\ SelectedFor(k)) <=> ReceivedBy(windows[k].id) # {}

\* --all on three windows of which the second is no longer visible: the first
\* attempt succeeds, the second fails, the third is still made and succeeds
C21_Witness ==
    /\ handler = "handle_transparency" /\ pc = "done" /\ platform = "Windows"
    /\ Len(windows) = 3 /\ all /\ indices = <<>>
    /\ Len(received) = 3
    /\ received[1].ok /\ ~received[2].ok /\ received[3].ok
    /\ received[1].id = windows[1].id /\ received[2].id = windows[2].id
    /\ received[3].id = windows[3].id
    /\ outcome.ok /\ outcome.val = 2

-----------------------------------------------------------------------------
(* The toggle as a read followed by a write *)

\* C22: in toggle mode set_always_on_top is called only after is_always_on_top has
\* returned Ok, as a separate call; the state written is the negation of the value
\* that was read, whatever another actor has done to the flag since the read.
C22_ToggleWritesNegationOfRead ==
    /\ \A b \in 1..Len(received) :
           received[b].method = "set_always_on_top" =>
               /\ b = 2
               /\ received[1].method = "is_always_on_top" /\ received[1].ok
               /\ params # <<>>
    /\ (pc = "returned" /\ Len(received) = 2 /\ received[2].ok) =>
           /\ Topmost(native[1]) = ~params[1]
           /\ outcome.ok /\ outcome.val = ~params[1]

\* the flag was read as not set, another actor then set it, and the write set it
\* again: the flag after the write equals the flag just before the write
C22_Witness ==
    /\ pc = "returned" /\ platform = "Windows"
    /\ Len(received) = 2 /\ received[2].ok
    /\ params = <<FALSE>>
    /\ flips = 1
    /\ prior = <<TRUE>>
    /\ Topmost(native[1])

-----------------------------------------------------------------------------
(* resize *)

\* x is d / 2 as i32 division gives it: the quotient nearest to zero
IsHalf(x, d) ==
    IF d >= 0 THEN 2 * x = d \/ 2 * x = d - 1
    ELSE 2 * x = d \/ 2 * x = d + 1

\* C23: a resize that succeeds on the Windows backend leaves the window with the
\* given width and height; with keep_position its top-left is the one it had;
\* with center and not keep_position its top-left is ((screen_width - width) / 2,
\* (screen_height - height) / 2), the screen size being asked of the OS; with
\* neither flag the backend computes no position: it does not ask for the screen
\* size and the top-left is the one the window had.
C23_ResizePolicies ==
    (pc = "returned" /\ operation = "resize" /\ platform = "Windows" /\ outcome.ok) =>
        LET w == native[1]
            width == params[1]
            height == params[2]
            keep_position == params[3]
            center == params[4]
            asked == \E k \in 1..Len(issued) : issued[k].call = "GetSystemMetrics"
            kept == \E w0 \in NativeWindows : w.left = w0.left /\ w.top = w0.top
        IN  /\ w.width = width /\ w.height = height
            /\ keep_position => (kept /\ ~asked)
            /\ (center /\ ~keep_position) =>
                   /\ asked
                   /\ IsHalf(w.left, ScreenWidth - width)
                   /\ IsHalf(w.top, ScreenHeight - height)
            /\ (~center /\ ~keep_position) => (kept /\ ~asked)

\* a window resized to 2000x1081 with center on the 1920x1080 display: its
\* top-left is (-40, 0)
C23_Witness ==
    /\ pc = "returned" /\ operation = "resize" /\ platform = "Windows" /\ outcome.ok
    /\ params = <<2000, 1081, FALSE, TRUE>>
    /\ native[1].width = 2000 /\ native[1].height = 1081
    /\ native[1].left = -40 /\ native[1].top = 0

-----------------------------------------------------------------------------
(* Non-positive sizes *)

\* the numbers of a well-formed size argument, <<>> when it is not well-formed
GivenSize ==
    IF IsSome(args.size)
    THEN LET parts == SplitXFrom(Unwrap(args.size), <<>>, <<>>)
         IN  IF Len(parts) = 2 /\ IsSome(ParseI32(Trim(parts[1])))
                /\ IsSome(ParseI32(Trim(parts[2])))
             THEN <<Unwrap(ParseI32(Trim(parts[1]))), Unwrap(ParseI32(Trim(parts[2])))>>
             ELSE <<>>
    ELSE IF IsSome(args.width) /\ IsSome(args.height)
            /\ IsSome(ParseI32(Unwrap(args.width))) /\ IsSome(ParseI32(Unwrap(args.height)))
    THEN <<Unwrap(ParseI32(Unwrap(args.width))), Unwrap(ParseI32(Unwrap(args.height)))>>
    ELSE <<>>

NonPositiveSizeGiven ==
    handler = "handle_resize" /\ GivenSize # <<>> /\ (GivenSize[1] <= 0 \/ GivenSize[2] <= 0)

\* C24: the resize command given a zero or negative width or height, as --size or
\* as --width/--height, returns InvalidParameter whatever discovery would find:
\* the window list is not walked, resize is called on no handle and no native call
\* is issued.
C24_NonPositiveSizeRejectedFirst ==
    (pc # "start" /\ NonPositiveSizeGiven) =>
        /\ pc = "done"
        /\ ~outcome.ok /\ outcome.err.kind = "InvalidParameter"
        /\ cursor = 0 /\ indices = <<>>
        /\ received = <<>> /\ issued = <<>>
        /\ \A k \in 1..Len(native) : native[k] = NativeOf(k, native[k])

\* --width 320 --height -1 with three visible windows matching and --all
C24_Witness ==
    /\ handler = "handle_resize" /\ pc = "done" /\ platform = "Windows"
    /\ args.width = Some(<<"3", "2", "0">>) /\ args.height = Some(<<"-", "1">>)
    /\ Len(windows) = 3 /\ all
    /\ \A k \in 1..3 : native[k].visible /\ native[k].failing = {}
    /\ outcome.err.kind = "InvalidParameter"
    /\ received = <<>>

-----------------------------------------------------------------------------
(* Transparency *)

\* C25: a set_transparency(p) that succeeds on the Windows backend, p in 0..100,
\* hands the OS the alpha floor(p * 255 / 100): it lies in 0..255, is 0 for p = 0
\* and 255 for p = 100, and no smaller percentage maps to a larger alpha.
C25_AlphaIsLinear ==
    (pc = "returned" /\ operation = "set_transparency" /\ platform = "Windows" /\ outcome.ok) =>
        LET p == params[1]
            a == native[1].alpha
        IN  /\ p \in 0..100
            /\ a \in 0..255
            /\ 100 * a <= 255 * p /\ 255 * p < 100 * (a + 1)
            /\ p = 0 => a = 0
            /\ p = 100 => a = 255
            /\ \A q \in 0..100 : q <= p => Alpha(q) <= a

\* 33 percent is handed to the OS as alpha 84
C25_Witness ==
    /\ pc = "returned" /\ operation = "set_transparency" /\ platform = "Windows" /\ outcome.ok
    /\ params = <<33>>
    /\ native[1].alpha = 84
    /\ "WS_EX_LAYERED" \in native[1].ex_style

-----------------------------------------------------------------------------
(* Several matching windows without --all *)

\* the always-on-top command and the minimize / maximize / restore commands
SingleTargetCommands ==
    {"handle_always_on_top", "handle_window_operation", "execute_window_operation"}

\* C26: the always-on-top command and the minimize / maximize / restore commands,
\* finding k > 1 matching windows without --all, fail with MultipleWindows(k) and
\* leave every window as it was.
C26_MultipleWindowsRejected ==
    (handler \in SingleTargetCommands /\ pc = "done" /\ Len(windows) > 1 /\ ~all) =>
        /\ ~outcome.ok
        /\ outcome.err.kind = "MultipleWindows"
        /\ outcome.err.count = Len(windows)
        /\ received = <<>> /\ issued = <<>>
        /\ \A k \in 1..Len(native) : native[k] = NativeOf(k, native[k])

-----------------------------------------------------------------------------
(* Which position a window gets *)

GridMode == ~IsSome(position) /\ IsBlank(UnwrapOrDefault(layout))
            /\ (IsSome(x_start) \/ IsSome(y_start))

ExplicitMode == ~IsSome(position) /\ ~IsBlank(UnwrapOrDefault(layout))

\* the window with handle id is where set_position(x, y) puts it
MovedTo(id, x, y) == native[id].left = x /\ native[id].top = y

\* C27: in the position-set command one position is computed per matched window,
\* and a window whose set_position succeeded is at the position of its own place
\* in the sorted list, whichever windows were selected; in Grid mode that is
\* (x_start + (k-1) * x_step, y_start + (k-1) * y_step) for the window at place k;
\* an Explicit layout with fewer pairs than matched windows is refused even when
\* fewer windows are selected.
C27_PositionByListPlace ==
    (handler = "handle_position_set" /\ pc \in {"dispatch", "done"} /\ windows # <<>>) =>
        /\ (validation.ok /\ positions.ok) =>
               /\ Len(positions.val) = Len(windows)
               /\ \A j \in 1..Len(received) :
                      received[j].ok =>
                          LET k == PlaceOf(received[j].id)
                          IN  /\ MovedTo(received[j].id, positions.val[k][1], positions.val[k][2])
                              /\ GridMode =>
                                     MovedTo(received[j].id,
                                             WrapAdd(ParseOr(x_start, DefaultStart),
                                                     WrapMul(k - 1, ParseOr(x_step, DefaultStep))),
                                             WrapAdd(ParseOr(y_start, DefaultStart),
                                                     WrapMul(k - 1, ParseOr(y_step, DefaultStep))))
        /\ (validation.ok /\ ExplicitMode /\ Len(Split(Unwrap(layout))) % 2 = 0
            /\ Len(Split(Unwrap(layout))) \div 2 < Len(windows)) =>
               (pc = "done" /\ ~outcome.ok /\ received = <<>>)

\* --index 2 --x-start 0 --y-step 50 on three visible windows: only the second
\* window of the list is moved, to (100, 50)
C27_Witness ==
    /\ handler = "handle_position_set" /\ pc = "done" /\ platform = "Windows"
    /\ Len(windows) = 3 /\ indices = <<2>>
    /\ x_start = Some(<<"0">>) /\ y_step = Some(<<"5", "0">>)
    /\ Len(received) = 1 /\ received[1].ok /\ received[1].id = windows[2].id
    /\ MovedTo(windows[2].id, 100, 50)
    /\ outcome.ok

-----------------------------------------------------------------------------
(* Index strings without a valid entry *)

\* no comma-separated piece of s denotes an integer in 1..n
NoValidEntry(s, n) ==
    \A k \in 1..Len(Split(s)) :
        LET piece == Trim(Split(s)[k])
        IN  \/ ~IsSome(ParseUsize(piece))
            \/ Unwrap(ParseUsize(piece)) \notin 1..n

\* C28: an index-addressed handler given a non-empty index string without a valid
\* in-range entry has the parsed index set of the empty string, and when its loop
\* is over the windows attempted are the first one only, or all of them with
\* --all, never none.
C28_InvalidIndexActsAsEmpty ==
    (handler \in IndexedHandlers /\ pc = "done" /\ windows # <<>> /\ cursor = Len(windows)
     /\ index # <<>> /\ NoValidEntry(index, Len(windows))) =>
        /\ indices = parse_indices(<<>>, Len(windows))
        /\ indices = <<>>
        /\ \A k \in 1..Len(windows) :
               ReceivedBy(windows[k].id) # {} <=> (all \/ k = 1)

\* --index "x,9" without --all on three visible windows: the first window alone is
\* minimized
C28_Witness ==
    /\ handler = "handle_window_operation" /\ operation = "minimize" /\ pc = "done"
    /\ platform = "Windows" /\ Len(windows) = 3 /\ ~all
    /\ index = <<"x", ",", "9">>
    /\ \A k \in 1..3 : native[k].visible /\ native[k].failing = {}
    /\ native[windows[1].id].show = "minimized"
    /\ native[windows[2].id].show = "normal" /\ native[windows[3].id].show = "normal"
    /\ outcome.ok /\ outcome.val = 1

-----------------------------------------------------------------------------
(* Repeated and unordered indices *)

\* C29: in an index-addressed handler no window receives the operation more than
\* once, also when its index is listed several times, and the windows are
\* processed in the order of the sorted list, not in the order of the index string.
C29_AtMostOnceInListOrder ==
    (handler \in IndexedHandlers /\ pc \in {"dispatch", "done"} /\ windows # <<>>) =>
        /\ \A k \in 1..Len(windows) : Cardinality(ReceivedBy(windows[k].id)) <= 1
        /\ \A a, b \in 1..Len(received) :
               a < b => PlaceOf(received[a].id) < PlaceOf(received[b].id)

\* --index "3,1,3" on three visible windows: the parsed list is 3, 1, 3; the first
\* window is resized first, then the third, each once
C29_Witness ==
    /\ handler = "handle_resize" /\ pc = "done" /\ platform = "Windows"
    /\ Len(windows) = 3
    /\ indices = <<3, 1, 3>>
    /\ \A k \in 1..3 : native[k].visible /\ native[k].failing = {}
    /\ Len(received) = 2
    /\ received[1].id = windows[1].id /\ received[2].id = windows[3].id
    /\ outcome.ok /\ outcome.val = 2

-----------------------------------------------------------------------------
(* Unparsable grid values *)

\* the value is present but is not the text of an i32
Unparsable(o) == IsSome(o) /\ ~IsSome(ParseI32(Unwrap(o)))

\* the grid value in force: the number given, or the default d when the value is
\* missing or unparsable
InForce(o, d) == IF IsSome(o) /\ ~Unparsable(o) THEN Unwrap(ParseI32(Unwrap(o))) ELSE d

\* C30: in Grid mode calculate_positions returns N positions and no error, also
\* with start or step values that are present but do not parse as i32; such a
\* value counts as 0 for a start and as 100 for a step, as a missing one does.
C30_UnparsableGridValueIsDefault ==
    (pc = "calculated" /\ GridMode) =>
        /\ positions.ok
        /\ Len(positions.val) = window_count
        /\ \A k \in 1..window_count :
               /\ positions.val[k][1] = WrapAdd(InForce(x_start, 0), WrapMul(k - 1, InForce(x_step, 100)))
               /\ positions.val[k][2] = WrapAdd(InForce(y_start, 0), WrapMul(k - 1, InForce(y_step, 100)))

\* --x-start " 5" --x-step a --y-step 50 for three windows: x runs 0, 100, 200
C30_Witness ==
    /\ pc = "calculated" /\ GridMode /\ window_count = 3
    /\ Unparsable(x_start) /\ Unparsable(x_step)
    /\ ~IsSome(y_start) /\ y_step = Some(<<"5", "0">>)
    /\ positions.ok
    /\ positions.val = <<(<<0, 0>>), (<<100, 50>>), (<<200, 100>>)>>

====
